---- MODULE Spec2Model ----
(***************************************************************************)
(* The recursive descent parser of the C-minus compiler, with the semantic *)
(* actions it calls and the scope stack they maintain.                     *)
(*                                                                         *)
(* The parser is modelled as a machine with an explicit call stack: one    *)
(* action per parse function, each running the function from its current   *)
(* position up to its next call of another parse function or its return.   *)
(***************************************************************************)
EXTENDS Integers, Sequences, FiniteSets, TLC

VARIABLES
    words,    \* the word stream the scanner delivers (without the Eof sentinel)
    pos,      \* number of words consumed so far; peek_word is words[pos + 1]
    stack,    \* call stack of the parse_* functions, innermost last
    ret,      \* value returned by the parse_* function that returned last
    scopes,   \* Sema's scope stack, innermost last
    diags,    \* diagnostics reported so far, in order
    trace,    \* semantic actions and scope pushes/pops so far, in order
    handlers,     \* diagnostic handlers installed by handler(), oldest first
    delivered,    \* calls of the diagnostic handlers so far, in order
    source,       \* the characters of the source text given to the scanner
    current_pos,  \* place in source of the next character the scanner reads
    scanned,      \* words returned by next_word so far, in order
    skipped       \* runs of characters next_word passed over, in order

vars == <<words, pos, stack, ret, scopes, diags, trace, handlers, delivered,
          source, current_pos, scanned, skipped>>

\* State of the diagnostic manager and of the scanner.
scanner == <<source, current_pos, scanned, skipped>>

\* State of the parser and of the semantic actions.
parser == <<words, pos, stack, ret, scopes, trace>>

\* Only the handler set by the constructor of DiagnosticManager is in use.
DiagnosticManagerInit == handlers = <<>> /\ delivered = <<>>

\* No source is being scanned.
ScannerIdle ==
    source = <<>> /\ current_pos = 1 /\ scanned = <<>> /\ skipped = <<>>

----------------------------------------------------------------------------
(* Bounds of the input families.                                           *)

\* Operators in an expression chain: operand (operator operand)^k, k <= MaxChain.
MaxChain == 2

\* Params in a parameter list.
MaxParams == 2

\* Nesting depth of if / while / compound statements.
MaxNest == 2

\* Top-level declarations in a program of the declaration family.
MaxDecls == 2

----------------------------------------------------------------------------
(* Words.                                                                  *)

Numbers == {"1", "2", "4294967296"}

INT32_MAX == 2147483647

\* Category of a lexeme, as the scanner classifies it.
CategoryOf(lx) ==
    CASE lx = "else" -> "Else"
      [] lx = "if" -> "If"
      [] lx = "int" -> "Int"
      [] lx = "return" -> "Return"
      [] lx = "void" -> "Void"
      [] lx = "while" -> "While"
      [] lx = "+" -> "Plus"
      [] lx = "-" -> "Minus"
      [] lx = "*" -> "Multiply"
      [] lx = "/" -> "Divide"
      [] lx = "<" -> "Less"
      [] lx = "<=" -> "LessEqual"
      [] lx = ">" -> "Greater"
      [] lx = ">=" -> "GreaterEqual"
      [] lx = "==" -> "Equal"
      [] lx = "!=" -> "NotEqual"
      [] lx = "=" -> "Assign"
      [] lx = ";" -> "Semicolon"
      [] lx = "," -> "Comma"
      [] lx = "(" -> "OpenParen"
      [] lx = ")" -> "CloseParen"
      [] lx = "[" -> "OpenBracket"
      [] lx = "]" -> "CloseBracket"
      [] lx = "{" -> "OpenCurly"
      [] lx = "}" -> "CloseCurly"
      [] lx \in Numbers -> "Number"
      [] OTHER -> "Identifier"

\* A classified word; loc stands for the place of its lexeme in the source.
Word(category, lexeme, loc) ==
    [category |-> category, lexeme |-> lexeme, loc |-> loc]

\* std::nullopt of std::optional<Word>.
NoWord == Word("None", "", 0)

\* The word stream of a source given as its sequence of lexemes.
Lex(src) == [i \in 1..Len(src) |-> Word(CategoryOf(src[i]), src[i], i)]

----------------------------------------------------------------------------
(* AST nodes.                                                              *)

Null == [kind |-> "null"]

NoDecl == [kind |-> "none", name |-> "", loc |-> 0]

IsNull(n) == n.kind = "null"

\* Value of ret while a call is in progress: nothing has been returned yet.
Pending == [kind |-> "pending"]

----------------------------------------------------------------------------
(* The parser's window on the word stream, and the diagnostic manager.     *)
(* An environment e = [pos, diags, delivered, scopes, trace] is threaded    *)
(* through the helpers a parse_* function calls within one step.           *)

Env ==
    [pos |-> pos, diags |-> diags, delivered |-> delivered,
     scopes |-> scopes, trace |-> trace]

lookahead(e, k) ==
    IF e.pos + 1 + k <= Len(words)
    THEN words[e.pos + 1 + k]
    ELSE Word("Eof", "", Len(words) + 1)

peek_word(e) == lookahead(e, 0)

consume(e) == [e EXCEPT !.pos = @ + 1]

RECURSIVE call_handler_mutant(_, _, _)
\* Mutant of call_handler: the chain goes on when the handler returns false.
call_handler_mutant(k, diag, nth) ==
    <<[handler |-> k, diag |-> diag, nth |-> nth]>>
    \o (IF k > 0 /\ diag.code \notin handlers[k].passes
        THEN call_handler_mutant(k - 1, diag, nth)
        ELSE <<>>)

RECURSIVE call_handler(_, _, _)
\* The calls made when the diagnostic is given to handler k: the handler
\* itself and, if it returns true, the handler that was in use before it.
call_handler(k, diag, nth) ==
    <<[handler |-> k, diag |-> diag, nth |-> nth]>>
    \o (IF k > 0 /\ diag.code \in handlers[k].passes
        THEN call_handler(k - 1, diag, nth)
        ELSE <<>>)

\* DiagnosticBuilder's constructor: the diagnostic under construction, with
\* the code and the location and no argument or range yet.
DiagnosticBuilder(code, loc) ==
    [code |-> code, loc |-> loc, args |-> <<>>, ranges |-> <<>>]

\* DiagnosticBuilder::arg and DiagnosticBuilder::range, chained on a builder.
arg(builder, a) == [builder EXCEPT !.args = Append(@, a)]

range(builder, r) == [builder EXCEPT !.ranges = Append(@, r)]

RECURSIVE fold_arg(_, _)
\* (builder.arg(args), ...): the pack is appended from left to right.
fold_arg(builder, args) ==
    IF args = <<>>
    THEN builder
    ELSE fold_arg(arg(builder, Head(args)), Tail(args))

\* DiagnosticManager::report: the builder, holding the pack of arguments.
report(code, loc, args) == fold_arg(DiagnosticBuilder(code, loc), args)

\* The destruction of the builder at the end of the statement it was made
\* in, which calls DiagnosticManager::emit: the diagnostic is given to the
\* handler in use.  e is any record with the diagnostics emitted and the
\* handler calls made so far.
emit(e, builder) ==
    [e EXCEPT !.diags = Append(@, builder),
              !.delivered = @ \o call_handler(Len(handlers), builder,
                                              Len(e.diags) + 1)]

\* Result of a helper that yields an optional word.
WordResult(e, word) == [e |-> e, word |-> word]

try_consume(e, categories) ==
    IF peek_word(e).category \in categories
    THEN WordResult(consume(e), peek_word(e))
    ELSE WordResult(e, NoWord)

expect_and_consume(e, category) ==
    IF peek_word(e).category = category
    THEN WordResult(consume(e), peek_word(e))
    ELSE WordResult(emit(e, report("parser_expected_token", peek_word(e).loc,
                               <<category>>)),
                    NoWord)

expect_and_consume_type(e) ==
    LET type == try_consume(e, {"Void", "Int"})
    IN  IF type.word # NoWord
        THEN type
        ELSE WordResult(emit(e, report("parser_expected_type", peek_word(e).loc,
                                   <<>>)),
                        NoWord)

----------------------------------------------------------------------------
(* Sema: the scope stack and the semantic actions.  A scope frame maps     *)
(* names to declarations: syms holds one [kind, name, loc] per name.       *)

ScopeFrame(flags) == [flags |-> flags, syms |-> {}]

DeclRef(kind, id) == [kind |-> kind, name |-> id.lexeme, loc |-> id.loc]

Event(e, ev, name, loc) ==
    [e EXCEPT !.trace = Append(@, [ev |-> ev, name |-> name, loc |-> loc,
                                   depth |-> Len(e.scopes)])]

\* ParseScope's constructor: pushes a frame.
enter_scope(e, flags) ==
    Event([e EXCEPT !.scopes = Append(@, ScopeFrame(flags))],
          "enter_scope", "", 0)

\* ParseScope's destructor: pops the innermost frame.
leave_scope(e) ==
    Event([e EXCEPT !.scopes = SubSeq(@, 1, Len(@) - 1)], "leave_scope", "", 0)

NamesOf(frame) == {d.name : d \in frame.syms}

\* Inner-to-outer search of the scope stack.
lookup(scps, name) ==
    LET found == {i \in 1..Len(scps) : name \in NamesOf(scps[i])}
    IN  IF found = {}
        THEN NoDecl
        ELSE LET i == CHOOSE i \in found : \A j \in found : j <= i
             IN  CHOOSE d \in scps[i].syms : d.name = name

\* Insertion into the current frame; fails if the name exists there.
insert(e, decl) ==
    LET top == Len(e.scopes)
    IN  IF decl.name \in NamesOf(e.scopes[top])
        THEN emit(e, report("sema_redefinition", decl.loc, <<decl.name>>))
        ELSE [e EXCEPT !.scopes[top].syms = @ \cup {decl}]

\* Result of a semantic action: the environment and the node it returns.
NodeResult(e, node) == [e |-> e, node |-> node]

act_on_program_start(e) ==
    NodeResult(Event([e EXCEPT !.scopes = Append(@, ScopeFrame({}))],
                     "act_on_program_start", "", 0),
               [kind |-> "Program", decls |-> <<>>])

act_on_program_end(e, program) ==
    NodeResult(Event([e EXCEPT !.scopes = SubSeq(@, 1, Len(@) - 1)],
                     "act_on_program_end", "", 0),
               program)

act_on_top_level_decl(e, program, decl) ==
    NodeResult(Event(e, "act_on_top_level_decl", decl.name, decl.loc),
               [program EXCEPT !.decls = Append(@, decl)])

\* A void variable is rejected: diagnosed and not installed.
declare_var(e, kind, type, id) ==
    IF type.category = "Void"
    THEN emit(e, report("sema_var_cannot_be_void", id.loc, <<>>))
    ELSE insert(e, DeclRef(kind, id))

act_on_var_decl(e, type, id, num) ==
    NodeResult(declare_var(Event(e, "act_on_var_decl", id.lexeme, id.loc),
                           "VarDecl", type, id),
               [kind |-> "VarDecl", type |-> type.category, name |-> id.lexeme,
                loc |-> id.loc, array_size |-> num])

act_on_param_decl(e, type, id, is_array) ==
    NodeResult(declare_var(Event(e, "act_on_param_decl", id.lexeme, id.loc),
                           "ParmVarDecl", type, id),
               [kind |-> "ParmVarDecl", type |-> type.category,
                name |-> id.lexeme, loc |-> id.loc, is_array |-> is_array])

act_on_fun_decl_start(e, retn, id) ==
    NodeResult(insert(Event(e, "act_on_fun_decl_start", id.lexeme, id.loc),
                      DeclRef("FunDecl", id)),
               [kind |-> "FunDecl", retn |-> retn.category, name |-> id.lexeme,
                loc |-> id.loc, params |-> <<>>, body |-> Null])

act_on_fun_decl_end(e, fun_decl) ==
    NodeResult(Event(e, "act_on_fun_decl_end", fun_decl.name, fun_decl.loc),
               fun_decl)

add_param(fun_decl, param) == [fun_decl EXCEPT !.params = Append(@, param)]

set_body(fun_decl, comp_stmt) == [fun_decl EXCEPT !.body = comp_stmt]

\* The decimal value of a number lexeme, clamped to the signed 32-bit range.
NumberValue(lexeme) ==
    CASE lexeme = "1" -> [value |-> 1, too_big |-> FALSE]
      [] lexeme = "2" -> [value |-> 2, too_big |-> FALSE]
      [] lexeme = "4294967296" -> [value |-> INT32_MAX, too_big |-> TRUE]

act_on_number(e, word) ==
    LET e1 == Event(e, "act_on_number", word.lexeme, word.loc)
        num == NumberValue(word.lexeme)
    IN  NodeResult(IF num.too_big
                   THEN emit(e1, report("parser_number_too_big", word.loc, <<>>))
                   ELSE e1,
                   [kind |-> "Number", value |-> num.value, loc |-> word.loc])

\* Name resolution of a reference: the declaration found, or none when the
\* name is undeclared or is declared as the other kind of entity.
resolve(e, id, wanted, mismatch) ==
    LET d == lookup(e.scopes, id.lexeme)
    IN  IF d = NoDecl
        THEN [e |-> emit(e, report("sema_undeclared_identifier", id.loc,
                          <<id.lexeme>>)),
              decl |-> NoDecl]
        ELSE IF d.kind \notin wanted
        THEN [e |-> emit(e, report(mismatch, id.loc, <<>>)), decl |-> NoDecl]
        ELSE [e |-> e, decl |-> d]

act_on_var(e, id, index) ==
    LET r == resolve(Event(e, "act_on_var", id.lexeme, id.loc), id,
                     {"VarDecl", "ParmVarDecl"}, "sema_var_is_not_a_var")
    IN  NodeResult(r.e, [kind |-> "VarRef", name |-> id.lexeme, loc |-> id.loc,
                         decl |-> r.decl, index |-> index])

act_on_call(e, id, args, rparen_loc) ==
    LET r == resolve(Event(e, "act_on_call", id.lexeme, id.loc), id,
                     {"FunDecl"}, "sema_fun_is_not_a_fun")
    IN  NodeResult(r.e, [kind |-> "FunCall", name |-> id.lexeme, loc |-> id.loc,
                         decl |-> r.decl, args |-> args])

act_on_assign(e, lvalue, expr2, op_word) ==
    NodeResult(Event(e, "act_on_assign", "Assign", op_word.loc),
               [kind |-> "BinaryExpr", op |-> "Assign", loc |-> op_word.loc,
                lhs |-> lvalue, rhs |-> expr2])

act_on_binary_expr(e, expr1, expr2, op_word) ==
    NodeResult(Event(e, "act_on_binary_expr", op_word.category, op_word.loc),
               [kind |-> "BinaryExpr", op |-> op_word.category,
                loc |-> op_word.loc, lhs |-> expr1, rhs |-> expr2])

act_on_null_stmt(e) ==
    NodeResult(Event(e, "act_on_null_stmt", "", 0), [kind |-> "NullStmt"])

act_on_expr_stmt(e, expr) ==
    NodeResult(Event(e, "act_on_expr_stmt", "", 0), expr)

act_on_compound_stmt(e, decls, stms) ==
    NodeResult(Event(e, "act_on_compound_stmt", "", 0),
               [kind |-> "CompoundStmt", decls |-> decls, stms |-> stms])

act_on_selection_stmt(e, expr, stmt1, stmt2) ==
    NodeResult(Event(e, "act_on_selection_stmt", "", 0),
               [kind |-> "SelectionStmt", cond |-> expr, then |-> stmt1,
                else |-> stmt2])

act_on_iteration_stmt(e, expr, stmt) ==
    NodeResult(Event(e, "act_on_iteration_stmt", "", 0),
               [kind |-> "IterationStmt", cond |-> expr, body |-> stmt])

act_on_return_stmt(e, expr, return_word) ==
    NodeResult(Event(e, "act_on_return_stmt", "", return_word.loc),
               [kind |-> "ReturnStmt", expr |-> expr, loc |-> return_word.loc])

\* ASTExpr::as_var_expr: the node itself when it is a VarRef, else null.
as_var_expr(expr) == IF expr.kind = "VarRef" THEN expr ELSE Null

----------------------------------------------------------------------------
(* The call stack.                                                         *)

Frame(fn) == [fn |-> fn, pc |-> "start"]

Top == stack[Len(stack)]

Running(fn) == stack # <<>> /\ Top.fn = fn

Commit(e) ==
    /\ pos' = e.pos
    /\ diags' = e.diags
    /\ scopes' = e.scopes
    /\ trace' = e.trace
    /\ delivered' = e.delivered
    /\ UNCHANGED <<words, handlers, scanner>>

\* The running function returns node to its caller.
Return(e, node) ==
    /\ Commit(e)
    /\ stack' = SubSeq(stack, 1, Len(stack) - 1)
    /\ ret' = node

\* The running function, its frame updated, calls callee.
Call(e, frame, callee) ==
    /\ Commit(e)
    /\ stack' = Append([stack EXCEPT ![Len(stack)] = frame], callee)
    /\ ret' = Pending

----------------------------------------------------------------------------
(* Declarations.                                                           *)

\* Mutant of parse_program: the declarations are parsed while the next word
\* is not Eof, the test made before the first declaration as well.
parse_program_mutant ==
    /\ Running("parse_program")
    /\ IF Top.pc = "start"
       THEN LET program == act_on_program_start(Env)
            IN  IF peek_word(program.e).category # "Eof"
                THEN Call(program.e,
                          [fn |-> "parse_program", pc |-> "decl",
                           program |-> program.node],
                          Frame("parse_declaration"))
                ELSE LET end == act_on_program_end(program.e, program.node)
                     IN  Return(end.e, end.node)
       ELSE IF ~IsNull(ret)
       THEN LET added == act_on_top_level_decl(Env, Top.program, ret)
            IN  IF peek_word(added.e).category # "Eof"
                THEN Call(added.e, [Top EXCEPT !.program = added.node],
                          Frame("parse_declaration"))
                ELSE LET end == act_on_program_end(added.e, added.node)
                     IN  Return(end.e, end.node)
       ELSE Return(Env, Null)

parse_program ==
    /\ Running("parse_program")
    /\ IF Top.pc = "start"
       THEN LET program == act_on_program_start(Env)
            IN  Call(program.e,
                     [fn |-> "parse_program", pc |-> "decl",
                      program |-> program.node],
                     Frame("parse_declaration"))
       ELSE IF ~IsNull(ret)
       THEN LET added == act_on_top_level_decl(Env, Top.program, ret)
            IN  IF peek_word(added.e).category # "Eof"
                THEN Call(added.e, [Top EXCEPT !.program = added.node],
                          Frame("parse_declaration"))
                ELSE LET end == act_on_program_end(added.e, added.node)
                     IN  Return(end.e, end.node)
       ELSE Return(Env, Null)

parse_declaration ==
    /\ Running("parse_declaration")
    /\ IF Top.pc = "start"
       THEN IF lookahead(Env, 2).category = "OpenParen"
            THEN Call(Env, [Top EXCEPT !.pc = "ret"],
                      Frame("parse_fun_declaration"))
            ELSE Call(Env, [Top EXCEPT !.pc = "ret"],
                      Frame("parse_var_declaration"))
       ELSE Return(Env, ret)

\* Mutant of var_declaration_end: the missing semicolon is diagnosed, and the
\* declaration is returned all the same.
var_declaration_end_mutant(e, type, id, num) ==
    LET semi == expect_and_consume(e, "Semicolon")
        decl == act_on_var_decl(semi.e, type, id, num)
    IN  Return(decl.e, decl.node)

\* parse_var_declaration from the semicolon on.
var_declaration_end(e, type, id, num) ==
    LET semi == expect_and_consume(e, "Semicolon")
    IN  IF semi.word = NoWord
        THEN Return(semi.e, Null)
        ELSE LET decl == act_on_var_decl(semi.e, type, id, num)
             IN  Return(decl.e, decl.node)

parse_var_declaration ==
    /\ Running("parse_var_declaration")
    /\ IF Top.pc = "start"
       THEN LET type == expect_and_consume_type(Env)
                id == expect_and_consume(type.e, "Identifier")
            IN  IF type.word = NoWord
                THEN Return(type.e, Null)
                ELSE IF id.word = NoWord
                THEN Return(id.e, Null)
                ELSE IF peek_word(id.e).category = "OpenBracket"
                THEN Call(consume(id.e),
                          [fn |-> "parse_var_declaration", pc |-> "num",
                           type |-> type.word, id |-> id.word],
                          Frame("parse_number"))
                ELSE var_declaration_end(id.e, type.word, id.word, Null)
       ELSE LET close == expect_and_consume(Env, "CloseBracket")
            IN  IF IsNull(ret)
                THEN Return(Env, Null)
                ELSE IF close.word = NoWord
                THEN Return(close.e, Null)
                ELSE var_declaration_end(close.e, Top.type, Top.id, ret)

\* Mutant of fun_declaration_body: the scope of the parameters ends at the
\* closing parenthesis.
fun_declaration_body_mutant(e, fun_decl) ==
    LET close == expect_and_consume(e, "CloseParen")
    IN  IF close.word = NoWord
        THEN Return(leave_scope(close.e), Null)
        ELSE Call(leave_scope(close.e),
                  [fn |-> "parse_fun_declaration", pc |-> "body",
                   fun_decl |-> fun_decl],
                  [fn |-> "parse_compound_stmt", pc |-> "start",
                   scope_flags |-> {"CompoundStmt", "FunScope"}])

\* parse_fun_declaration from the closing parenthesis of the params on.
fun_declaration_body(e, fun_decl) ==
    LET close == expect_and_consume(e, "CloseParen")
    IN  IF close.word = NoWord
        THEN Return(leave_scope(close.e), Null)
        ELSE Call(close.e,
                  [fn |-> "parse_fun_declaration", pc |-> "body",
                   fun_decl |-> fun_decl],
                  [fn |-> "parse_compound_stmt", pc |-> "start",
                   scope_flags |-> {"CompoundStmt", "FunScope"}])

\* Mutant of fun_declaration_params: a missing comma returns null with the
\* scope of the parameters still entered.
fun_declaration_params_mutant(e, fun_decl) ==
    IF peek_word(e).category # "CloseParen"
    THEN LET comma == expect_and_consume(e, "Comma")
         IN  IF comma.word = NoWord
             THEN Return(comma.e, Null)
             ELSE Call(comma.e,
                       [fn |-> "parse_fun_declaration", pc |-> "param",
                        fun_decl |-> fun_decl],
                       Frame("parse_param"))
    ELSE fun_declaration_body(e, fun_decl)

\* The loop of parse_fun_declaration over the params after the first.
fun_declaration_params(e, fun_decl) ==
    IF peek_word(e).category # "CloseParen"
    THEN LET comma == expect_and_consume(e, "Comma")
         IN  IF comma.word = NoWord
             THEN Return(leave_scope(comma.e), Null)
             ELSE Call(comma.e,
                       [fn |-> "parse_fun_declaration", pc |-> "param",
                        fun_decl |-> fun_decl],
                       Frame("parse_param"))
    ELSE fun_declaration_body(e, fun_decl)

\* Mutant of fun_declaration_first_param: a leading `void` alone is taken as
\* the whole of the params.
fun_declaration_first_param_mutant(e, fun_decl) ==
    IF lookahead(e, 0).category = "Void"
    THEN fun_declaration_body(consume(e), fun_decl)
    ELSE Call(e,
              [fn |-> "parse_fun_declaration", pc |-> "param",
               fun_decl |-> fun_decl],
              Frame("parse_param"))

\* <params> ::= <param-list> | void
fun_declaration_first_param(e, fun_decl) ==
    IF /\ lookahead(e, 0).category = "Void"
       /\ lookahead(e, 1).category = "CloseParen"
    THEN fun_declaration_body(consume(e), fun_decl)
    ELSE Call(e,
              [fn |-> "parse_fun_declaration", pc |-> "param",
               fun_decl |-> fun_decl],
              Frame("parse_param"))

\* Mutant of fun_declaration_start: the scope of the parameters is entered
\* before the function is declared.
fun_declaration_start_mutant(e, retn, id) ==
    LET scope == enter_scope(e, {"FunParamsScope"})
        fun_decl == act_on_fun_decl_start(scope, retn, id)
    IN  fun_declaration_first_param(fun_decl.e, fun_decl.node)

\* parse_fun_declaration once the header up to the opening parenthesis has
\* been consumed: the function is declared, then the scope of its parameters
\* is entered.
fun_declaration_start(e, retn, id) ==
    LET fun_decl == act_on_fun_decl_start(e, retn, id)
        scope == enter_scope(fun_decl.e, {"FunParamsScope"})
    IN  fun_declaration_first_param(scope, fun_decl.node)

parse_fun_declaration ==
    /\ Running("parse_fun_declaration")
    /\ CASE Top.pc = "start" ->
            LET retn == expect_and_consume_type(Env)
                id == expect_and_consume(retn.e, "Identifier")
                open == expect_and_consume(id.e, "OpenParen")
            IN  IF retn.word = NoWord
                THEN Return(retn.e, Null)
                ELSE IF id.word = NoWord
                THEN Return(id.e, Null)
                ELSE IF open.word = NoWord
                THEN Return(open.e, Null)
                ELSE fun_declaration_start(open.e, retn.word, id.word)
         [] Top.pc = "param" ->
            IF ~IsNull(ret)
            THEN fun_declaration_params(Env, add_param(Top.fun_decl, ret))
            ELSE Return(leave_scope(Env), Null)
         [] Top.pc = "body" ->
            IF IsNull(ret)
            THEN Return(leave_scope(Env), Null)
            ELSE LET end == act_on_fun_decl_end(leave_scope(Env),
                                                set_body(Top.fun_decl, ret))
                 IN  Return(end.e, end.node)

parse_param ==
    /\ Running("parse_param")
    /\ LET type == expect_and_consume_type(Env)
           id == expect_and_consume(type.e, "Identifier")
           open == try_consume(id.e, {"OpenBracket"})
           close == expect_and_consume(open.e, "CloseBracket")
       IN  IF type.word = NoWord
           THEN Return(type.e, Null)
           ELSE IF id.word = NoWord
           THEN Return(id.e, Null)
           ELSE IF open.word # NoWord
           THEN IF close.word = NoWord
                THEN Return(close.e, Null)
                ELSE LET param == act_on_param_decl(close.e, type.word,
                                                    id.word, TRUE)
                     IN  Return(param.e, param.node)
           ELSE LET param == act_on_param_decl(open.e, type.word, id.word,
                                               FALSE)
                IN  Return(param.e, param.node)

----------------------------------------------------------------------------
(* Statements.                                                             *)

parse_statement ==
    /\ Running("parse_statement")
    /\ IF Top.pc = "start"
       THEN LET category == peek_word(Env).category
                next == [Top EXCEPT !.pc = "ret"]
            IN  CASE category \in {"Identifier", "Number", "OpenParen",
                                   "Semicolon"} ->
                     Call(Env, next, Frame("parse_expr_stmt"))
                  [] category = "OpenCurly" ->
                     Call(Env, next,
                          [fn |-> "parse_compound_stmt", pc |-> "start",
                           scope_flags |-> {"CompoundStmt"}])
                  [] category = "If" ->
                     Call(Env, next, Frame("parse_selection_stmt"))
                  [] category = "While" ->
                     Call(Env, next, Frame("parse_iteration_stmt"))
                  [] category = "Return" ->
                     Call(Env, next, Frame("parse_return_stmt"))
                  [] OTHER ->
                     Return(emit(Env, report("parser_expected_statement",
                                   peek_word(Env).loc, <<>>)),
                            Null)
       ELSE Return(Env, ret)

\* Mutant of parse_expr_stmt: a failed expression is taken as a null
\* statement and the parse goes on.
parse_expr_stmt_mutant ==
    /\ Running("parse_expr_stmt")
    /\ IF Top.pc = "start"
       THEN LET semi == try_consume(Env, {"Semicolon"})
            IN  IF semi.word # NoWord
                THEN LET stmt == act_on_null_stmt(semi.e)
                     IN  Return(stmt.e, stmt.node)
                ELSE Call(Env, [Top EXCEPT !.pc = "expr"],
                          Frame("parse_expression"))
       ELSE IF ~IsNull(ret)
       THEN LET semi == expect_and_consume(Env, "Semicolon")
            IN  IF semi.word = NoWord
                THEN Return(semi.e, Null)
                ELSE LET stmt == act_on_expr_stmt(semi.e, ret)
                     IN  Return(stmt.e, stmt.node)
       ELSE LET stmt == act_on_null_stmt(Env)
            IN  Return(stmt.e, stmt.node)

parse_expr_stmt ==
    /\ Running("parse_expr_stmt")
    /\ IF Top.pc = "start"
       THEN LET semi == try_consume(Env, {"Semicolon"})
            IN  IF semi.word # NoWord
                THEN LET stmt == act_on_null_stmt(semi.e)
                     IN  Return(stmt.e, stmt.node)
                ELSE Call(Env, [Top EXCEPT !.pc = "expr"],
                          Frame("parse_expression"))
       ELSE IF ~IsNull(ret)
       THEN LET semi == expect_and_consume(Env, "Semicolon")
            IN  IF semi.word = NoWord
                THEN Return(semi.e, Null)
                ELSE LET stmt == act_on_expr_stmt(semi.e, ret)
                     IN  Return(stmt.e, stmt.node)
       ELSE Return(Env, Null)

\* The loop of parse_compound_stmt over the statements, and its end.
compound_stmt_statements(e, decls, stms) ==
    IF peek_word(e).category # "CloseCurly"
    THEN Call(e,
              [fn |-> "parse_compound_stmt", pc |-> "stmt",
               decls |-> decls, stms |-> stms],
              Frame("parse_statement"))
    ELSE LET stmt == act_on_compound_stmt(consume(e), decls, stms)
         IN  Return(leave_scope(stmt.e), stmt.node)

\* The loop of parse_compound_stmt over the local declarations.
compound_stmt_declarations(e, decls) ==
    IF peek_word(e).category \in {"Void", "Int"}
    THEN Call(e,
              [fn |-> "parse_compound_stmt", pc |-> "decl",
               decls |-> decls, stms |-> <<>>],
              Frame("parse_var_declaration"))
    ELSE compound_stmt_statements(e, decls, <<>>)

\* Mutant of parse_compound_stmt: the body of a function enters no scope of
\* its own.
parse_compound_stmt_mutant ==
    /\ Running("parse_compound_stmt")
    /\ CASE Top.pc = "start" ->
            LET open == expect_and_consume(Env, "OpenCurly")
            IN  IF open.word = NoWord
                THEN Return(open.e, Null)
                ELSE IF "FunScope" \in Top.scope_flags
                THEN compound_stmt_declarations(open.e, <<>>)
                ELSE compound_stmt_declarations(
                         enter_scope(open.e, Top.scope_flags), <<>>)
         [] Top.pc = "decl" ->
            IF ~IsNull(ret)
            THEN compound_stmt_declarations(Env, Append(Top.decls, ret))
            ELSE Return(leave_scope(Env), Null)
         [] Top.pc = "stmt" ->
            IF ~IsNull(ret)
            THEN compound_stmt_statements(Env, Top.decls,
                                          Append(Top.stms, ret))
            ELSE Return(leave_scope(Env), Null)

parse_compound_stmt ==
    /\ Running("parse_compound_stmt")
    /\ CASE Top.pc = "start" ->
            LET open == expect_and_consume(Env, "OpenCurly")
            IN  IF open.word = NoWord
                THEN Return(open.e, Null)
                ELSE compound_stmt_declarations(
                         enter_scope(open.e, Top.scope_flags), <<>>)
         [] Top.pc = "decl" ->
            IF ~IsNull(ret)
            THEN compound_stmt_declarations(Env, Append(Top.decls, ret))
            ELSE Return(leave_scope(Env), Null)
         [] Top.pc = "stmt" ->
            IF ~IsNull(ret)
            THEN compound_stmt_statements(Env, Top.decls,
                                          Append(Top.stms, ret))
            ELSE Return(leave_scope(Env), Null)

\* Mutant of selection_stmt_else: an `if` that is itself the statement of
\* an `if` leaves the `else` to the enclosing one.
selection_stmt_else_mutant(e, expr, stmt1) ==
    LET nested == /\ Len(stack) >= 3
                  /\ stack[Len(stack) - 2].fn = "parse_selection_stmt"
                  /\ stack[Len(stack) - 2].pc = "stmt1"
        else == IF nested THEN WordResult(e, NoWord)
                          ELSE try_consume(e, {"Else"})
    IN  IF else.word = NoWord
        THEN LET stmt == act_on_selection_stmt(e, expr, stmt1, Null)
             IN  Return(stmt.e, stmt.node)
        ELSE Call(else.e,
                  [fn |-> "parse_selection_stmt", pc |-> "stmt2",
                   expr |-> expr, stmt1 |-> stmt1],
                  Frame("parse_statement"))

\* parse_selection_stmt once the first statement has been parsed: an `else`
\* that follows is consumed at once, and the statement ends without one.
selection_stmt_else(e, expr, stmt1) ==
    LET else == try_consume(e, {"Else"})
    IN  IF else.word = NoWord
        THEN LET stmt == act_on_selection_stmt(e, expr, stmt1, Null)
             IN  Return(stmt.e, stmt.node)
        ELSE Call(else.e,
                  [fn |-> "parse_selection_stmt", pc |-> "stmt2",
                   expr |-> expr, stmt1 |-> stmt1],
                  Frame("parse_statement"))

parse_selection_stmt ==
    /\ Running("parse_selection_stmt")
    /\ CASE Top.pc = "start" ->
            LET if == expect_and_consume(Env, "If")
                open == expect_and_consume(if.e, "OpenParen")
            IN  IF if.word = NoWord
                THEN Return(if.e, Null)
                ELSE IF open.word = NoWord
                THEN Return(open.e, Null)
                ELSE Call(open.e, [Top EXCEPT !.pc = "expr"],
                          Frame("parse_expression"))
         [] Top.pc = "expr" ->
            IF ~IsNull(ret)
            THEN LET close == expect_and_consume(Env, "CloseParen")
                 IN  IF close.word = NoWord
                     THEN Return(close.e, Null)
                     ELSE Call(close.e,
                               [fn |-> "parse_selection_stmt", pc |-> "stmt1",
                                expr |-> ret],
                               Frame("parse_statement"))
            ELSE Return(Env, Null)
         [] Top.pc = "stmt1" ->
            IF ~IsNull(ret)
            THEN selection_stmt_else(Env, Top.expr, ret)
            ELSE Return(Env, Null)
         [] Top.pc = "stmt2" ->
            IF ~IsNull(ret)
            THEN LET stmt == act_on_selection_stmt(Env, Top.expr, Top.stmt1,
                                                   ret)
                 IN  Return(stmt.e, stmt.node)
            ELSE Return(Env, Null)

parse_iteration_stmt ==
    /\ Running("parse_iteration_stmt")
    /\ CASE Top.pc = "start" ->
            LET while == expect_and_consume(Env, "While")
                open == expect_and_consume(while.e, "OpenParen")
            IN  IF while.word = NoWord
                THEN Return(while.e, Null)
                ELSE IF open.word = NoWord
                THEN Return(open.e, Null)
                ELSE Call(open.e, [Top EXCEPT !.pc = "expr"],
                          Frame("parse_expression"))
         [] Top.pc = "expr" ->
            IF ~IsNull(ret)
            THEN LET close == expect_and_consume(Env, "CloseParen")
                 IN  IF close.word = NoWord
                     THEN Return(close.e, Null)
                     ELSE Call(close.e,
                               [fn |-> "parse_iteration_stmt", pc |-> "stmt",
                                expr |-> ret],
                               Frame("parse_statement"))
            ELSE Return(Env, Null)
         [] Top.pc = "stmt" ->
            IF ~IsNull(ret)
            THEN LET stmt == act_on_iteration_stmt(Env, Top.expr, ret)
                 IN  Return(stmt.e, stmt.node)
            ELSE Return(Env, Null)

parse_return_stmt ==
    /\ Running("parse_return_stmt")
    /\ IF Top.pc = "start"
       THEN LET return_word == expect_and_consume(Env, "Return")
                semi == try_consume(return_word.e, {"Semicolon"})
            IN  IF return_word.word = NoWord
                THEN Return(return_word.e, Null)
                ELSE IF semi.word # NoWord
                THEN LET stmt == act_on_return_stmt(semi.e, Null,
                                                    return_word.word)
                     IN  Return(stmt.e, stmt.node)
                ELSE Call(semi.e,
                          [fn |-> "parse_return_stmt", pc |-> "expr",
                           return_word |-> return_word.word],
                          Frame("parse_expression"))
       ELSE IF ~IsNull(ret)
       THEN LET semi == expect_and_consume(Env, "Semicolon")
            IN  IF semi.word = NoWord
                THEN Return(semi.e, Null)
                ELSE LET stmt == act_on_return_stmt(semi.e, ret,
                                                    Top.return_word)
                     IN  Return(stmt.e, stmt.node)
       ELSE Return(Env, Null)

----------------------------------------------------------------------------
(* Expressions.                                                            *)

\* Mutant of expression_assignment: the `=` is consumed whatever the simple
\* expression is.
expression_assignment_mutant(e, expr1) ==
    LET op_word == try_consume(e, {"Assign"})
    IN  IF op_word.word # NoWord
        THEN Call(op_word.e,
                  [fn |-> "parse_expression", pc |-> "expr2",
                   lvalue |-> expr1, op_word |-> op_word.word],
                  Frame("parse_expression"))
        ELSE Return(e, expr1)

\* parse_expression once parse_simple_expression has returned expr1: the
\* assignment is derived when expr1 is a <var> and an `=` follows.
expression_assignment(e, expr1) ==
    LET lvalue == as_var_expr(expr1)
        op_word == try_consume(e, {"Assign"})
    IN  IF ~IsNull(lvalue) /\ op_word.word # NoWord
        THEN Call(op_word.e,
                  [fn |-> "parse_expression", pc |-> "expr2",
                   lvalue |-> lvalue, op_word |-> op_word.word],
                  Frame("parse_expression"))
        ELSE Return(e, expr1)

parse_expression ==
    /\ Running("parse_expression")
    /\ CASE Top.pc = "start" ->
            Call(Env, [Top EXCEPT !.pc = "expr1"],
                 Frame("parse_simple_expression"))
         [] Top.pc = "expr1" ->
            IF ~IsNull(ret)
            THEN expression_assignment(Env, ret)
            ELSE Return(Env, Null)
         [] Top.pc = "expr2" ->
            IF ~IsNull(ret)
            THEN LET expr == act_on_assign(Env, Top.lvalue, ret, Top.op_word)
                 IN  Return(expr.e, expr.node)
            ELSE Return(Env, Null)

RelationalOperators ==
    {"LessEqual", "Less", "Greater", "GreaterEqual", "Equal", "NotEqual"}

parse_simple_expression ==
    /\ Running("parse_simple_expression")
    /\ CASE Top.pc = "start" ->
            Call(Env, [Top EXCEPT !.pc = "expr1"],
                 Frame("parse_additive_expression"))
         [] Top.pc = "expr1" ->
            IF ~IsNull(ret)
            THEN LET op_word == try_consume(Env, RelationalOperators)
                 IN  IF op_word.word # NoWord
                     THEN Call(op_word.e,
                               [fn |-> "parse_simple_expression",
                                pc |-> "expr2", expr1 |-> ret,
                                op_word |-> op_word.word],
                               Frame("parse_additive_expression"))
                     ELSE Return(Env, ret)
            ELSE Return(Env, Null)
         [] Top.pc = "expr2" ->
            IF ~IsNull(ret)
            THEN LET expr == act_on_binary_expr(Env, Top.expr1, ret,
                                                Top.op_word)
                 IN  Return(expr.e, expr.node)
            ELSE Return(Env, Null)

\* Mutant of binary_loop: the right operand is parsed by the function itself
\* (right recursion) instead of by the function of the next level.
binary_loop_mutant(e, fn, operators, callee, expr1) ==
    LET op_word == try_consume(e, operators)
    IN  IF op_word.word # NoWord
        THEN Call(op_word.e,
                  [fn |-> fn, pc |-> "expr2", expr1 |-> expr1,
                   op_word |-> op_word.word],
                  Frame(fn))
        ELSE Return(e, expr1)

\* The loop shared by parse_additive_expression and parse_term: while an
\* operator of the level follows, parse the next operand with callee.
binary_loop(e, fn, operators, callee, expr1) ==
    LET op_word == try_consume(e, operators)
    IN  IF op_word.word # NoWord
        THEN Call(op_word.e,
                  [fn |-> fn, pc |-> "expr2", expr1 |-> expr1,
                   op_word |-> op_word.word],
                  Frame(callee))
        ELSE Return(e, expr1)

parse_additive_expression ==
    /\ Running("parse_additive_expression")
    /\ CASE Top.pc = "start" ->
            Call(Env, [Top EXCEPT !.pc = "expr1"], Frame("parse_term"))
         [] Top.pc = "expr1" ->
            IF ~IsNull(ret)
            THEN binary_loop(Env, "parse_additive_expression",
                             {"Plus", "Minus"}, "parse_term", ret)
            ELSE Return(Env, Null)
         [] Top.pc = "expr2" ->
            IF ~IsNull(ret)
            THEN LET expr1 == act_on_binary_expr(Env, Top.expr1, ret,
                                                 Top.op_word)
                 IN  binary_loop(expr1.e, "parse_additive_expression",
                                 {"Plus", "Minus"}, "parse_term", expr1.node)
            ELSE Return(Env, Null)

parse_term ==
    /\ Running("parse_term")
    /\ CASE Top.pc = "start" ->
            Call(Env, [Top EXCEPT !.pc = "expr1"], Frame("parse_factor"))
         [] Top.pc = "expr1" ->
            IF ~IsNull(ret)
            THEN binary_loop(Env, "parse_term", {"Multiply", "Divide"},
                             "parse_factor", ret)
            ELSE Return(Env, Null)
         [] Top.pc = "expr2" ->
            IF ~IsNull(ret)
            THEN LET expr1 == act_on_binary_expr(Env, Top.expr1, ret,
                                                 Top.op_word)
                 IN  binary_loop(expr1.e, "parse_term",
                                 {"Multiply", "Divide"}, "parse_factor",
                                 expr1.node)
            ELSE Return(Env, Null)

parse_factor ==
    /\ Running("parse_factor")
    /\ CASE Top.pc = "start" ->
            LET category == peek_word(Env).category
            IN  CASE category = "Number" ->
                     Call(Env, [Top EXCEPT !.pc = "ret"], Frame("parse_number"))
                  [] category = "OpenParen" ->
                     Call(consume(Env), [Top EXCEPT !.pc = "expr1"],
                          Frame("parse_expression"))
                  [] category = "Identifier" ->
                     IF lookahead(Env, 1).category = "OpenParen"
                     THEN Call(Env, [Top EXCEPT !.pc = "ret"],
                               Frame("parse_call"))
                     ELSE Call(Env, [Top EXCEPT !.pc = "ret"],
                               Frame("parse_var"))
                  [] OTHER ->
                     Return(emit(Env, report("parser_expected_expression",
                                   peek_word(Env).loc, <<>>)),
                            Null)
         [] Top.pc = "expr1" ->
            IF IsNull(ret)
            THEN Return(Env, Null)
            ELSE LET close == expect_and_consume(Env, "CloseParen")
                 IN  IF close.word = NoWord
                     THEN Return(close.e, Null)
                     ELSE Return(close.e, ret)
         [] Top.pc = "ret" ->
            Return(Env, ret)

parse_number ==
    /\ Running("parse_number")
    /\ LET word == expect_and_consume(Env, "Number")
       IN  IF word.word # NoWord
           THEN LET num == act_on_number(word.e, word.word)
                IN  Return(num.e, num.node)
           ELSE Return(word.e, Null)

parse_var ==
    /\ Running("parse_var")
    /\ IF Top.pc = "start"
       THEN LET id == expect_and_consume(Env, "Identifier")
            IN  IF id.word = NoWord
                THEN Return(id.e, Null)
                ELSE IF peek_word(id.e).category = "OpenBracket"
                THEN Call(consume(id.e),
                          [fn |-> "parse_var", pc |-> "index", id |-> id.word],
                          Frame("parse_expression"))
                ELSE LET var == act_on_var(id.e, id.word, Null)
                     IN  Return(var.e, var.node)
       ELSE IF IsNull(ret)
       THEN Return(Env, Null)
       ELSE LET close == expect_and_consume(Env, "CloseBracket")
            IN  IF close.word = NoWord
                THEN Return(close.e, Null)
                ELSE LET var == act_on_var(close.e, Top.id, ret)
                     IN  Return(var.e, var.node)

\* Mutant of call_arguments: the call is acted on as a variable.
call_arguments_mutant(e, id, args) ==
    IF peek_word(e).category # "CloseParen"
    THEN LET comma == expect_and_consume(e, "Comma")
         IN  IF comma.word = NoWord
             THEN Return(comma.e, Null)
             ELSE Call(comma.e,
                       [fn |-> "parse_call", pc |-> "arg", id |-> id,
                        args |-> args],
                       Frame("parse_expression"))
    ELSE LET rparen == expect_and_consume(e, "CloseParen")
         IN  IF rparen.word = NoWord
             THEN Return(rparen.e, Null)
             ELSE LET call == act_on_var(rparen.e, id, Null)
                  IN  Return(call.e, call.node)

\* The loop of parse_call over the arguments after the first, and its end.
call_arguments(e, id, args) ==
    IF peek_word(e).category # "CloseParen"
    THEN LET comma == expect_and_consume(e, "Comma")
         IN  IF comma.word = NoWord
             THEN Return(comma.e, Null)
             ELSE Call(comma.e,
                       [fn |-> "parse_call", pc |-> "arg", id |-> id,
                        args |-> args],
                       Frame("parse_expression"))
    ELSE LET rparen == expect_and_consume(e, "CloseParen")
         IN  IF rparen.word = NoWord
             THEN Return(rparen.e, Null)
             ELSE LET call == act_on_call(rparen.e, id, args, rparen.word.loc)
                  IN  Return(call.e, call.node)

parse_call ==
    /\ Running("parse_call")
    /\ IF Top.pc = "start"
       THEN LET id == expect_and_consume(Env, "Identifier")
                open == expect_and_consume(id.e, "OpenParen")
            IN  IF id.word = NoWord
                THEN Return(id.e, Null)
                ELSE IF open.word = NoWord
                THEN Return(open.e, Null)
                ELSE IF peek_word(open.e).category # "CloseParen"
                THEN Call(open.e,
                          [fn |-> "parse_call", pc |-> "arg", id |-> id.word,
                           args |-> <<>>],
                          Frame("parse_expression"))
                ELSE call_arguments(open.e, id.word, <<>>)
       ELSE IF ~IsNull(ret)
       THEN call_arguments(Env, Top.id, Append(Top.args, ret))
       ELSE Return(Env, Null)

----------------------------------------------------------------------------
(* The sources parsed: families of lexeme sequences, well-formed and       *)
(* ill-formed, each varying one region of a program.                       *)

RECURSIVE Chains(_, _, _)
\* operand (operator operand)^k
Chains(operands, operators, k) ==
    IF k = 0
    THEN operands
    ELSE {c \o op \o o : c \in Chains(operands, operators, k - 1),
                         op \in operators, o \in operands}

ChainsUpTo(operands, operators, n) ==
    UNION {Chains(operands, operators, k) : k \in 0..n}

ArithmeticExprs ==
    ChainsUpTo({<<"a">>, <<"1">>},
               {<<"+">>, <<"-">>, <<"*">>, <<"/">>}, MaxChain)

AssignExprs ==
    ChainsUpTo({<<"a">>, <<"(", "b", ")">>, <<"1">>},
               {<<"=">>, <<"+">>, <<"<">>}, MaxChain)

OtherExprs ==
    {<<"a", "[", "1", "]", "=", "b">>, <<"a", "[", "b", "=", "1", "]">>,
     <<"f", "(", ")">>, <<"f", "(", "a", ",", "b", ")">>,
     <<"f", "(", "a", "=", "1", ")">>, <<"f", "(", "a", ",", ")">>,
     <<"f", "(", "a", "b", ")">>, <<"g", "(", "g", ")">>,
     <<"(", "a", "=", "1", ")", "=", "2">>, <<"(", "(", "a", ")", ")">>,
     <<"a", "<", "b", "<", "1">>, <<"a", "==", "b", "!=", "1">>,
     <<"a", "<=", "1">>, <<"a", ">=", "1">>, <<"a", ">", "1">>,
     <<"a", "=", "b", "<", "1">>, <<"a", "<", "b", "=", "1">>,
     <<"f", "=", "1">>, <<"a", "(", ")">>, <<"f", "(", ")", "=", "1">>,
     <<"a", "[", "1", "]", "[", "1", "]">>, <<"a", "[", "]">>,
     <<"a", "-", "1", "+", "a", "*", "2", "/", "b">>,
     <<"a", "*", "b", "-", "1", "/", "2", "+", "a">>,
     <<"4294967296">>, <<"(", ")">>, <<"(", "a">>, <<"a", "+">>}

\* A function whose body is one expression statement.
ExprPrograms ==
    {<<"int", "a", ";", "int", "f", "(", "int", "b", ")", "{">> \o x
         \o <<";", "}">> :
     x \in ArithmeticExprs \cup AssignExprs \cup OtherExprs}

Params ==
    {<<"int", "a">>, <<"int", "b", "[", "]">>, <<"void", "b">>,
     <<"int", "f">>}

RECURSIVE ParamLists(_)
\* param (, param)^(n - 1)
ParamLists(n) ==
    IF n = 1
    THEN Params
    ELSE {l \o <<",">> \o q : l \in ParamLists(n - 1), q \in Params}

ParamsTexts ==
    LET lists == UNION {ParamLists(n) : n \in 1..MaxParams}
    IN  lists \cup {l \o <<",">> : l \in lists}
              \cup {<<>>, <<"void">>, <<"void", ",", "int", "a">>,
                    <<"int", "a", "int", "b">>, <<"int">>, <<"a">>,
                    <<"int", "a", "[">>, <<"int", "a", "[", "1", "]">>,
                    <<",">>, <<"void", "void">>}

Preludes == {<<>>, <<"int", "a", ";">>, <<"int", "f", ";">>}

Bodies ==
    {<<"{", "}">>, <<"{", "a", "=", "f", "(", "a", ")", ";", "}">>,
     <<"{", "int", "a", ";", "a", "=", "f", "(", "a", ")", ";", "}">>,
     <<"{", "{", "int", "f", ";", "a", ";", "}", "f", "(", ")", ";", "}">>}

\* A function with a varying parameter list, after a varying prelude.
ParamPrograms ==
    {g \o <<"int", "f", "(">> \o q \o <<")">> \o b :
     g \in Preludes, q \in ParamsTexts, b \in Bodies}

SimpleStmts == {<<";">>, <<"a", ";">>, <<"return", "a", ";">>}

RECURSIVE Stmts(_)
\* Statements nested to depth d.
Stmts(d) ==
    IF d = 0
    THEN SimpleStmts
    ELSE LET inner == Stmts(d - 1)
         IN  SimpleStmts
             \cup {<<"if", "(", "a", ")">> \o x : x \in inner}
             \cup {<<"if", "(", "a", ")">> \o x \o <<"else">> \o y :
                   x \in inner, y \in SimpleStmts}
             \cup {<<"while", "(", "a", ")">> \o x : x \in inner}
             \cup {<<"{", "int", "a", ";">> \o x \o <<"}">> : x \in inner}

OtherStmts ==
    {<<"return", ";">>, <<"return", "a">>, <<"return", "}">>, <<"{", "}">>,
     <<"{", "a", ";", "int", "b", ";", "}">>, <<"{", "int", "b", "}">>,
     <<"{", "int", "b", "[", "a", "]", ";", "}">>,
     <<"{", "int", "b", "[", "2", ";", "}">>,
     <<"if", "a", ")", ";">>, <<"if", "(", "a", ";">>, <<"if", "(", ")", ";">>,
     <<"if", "(", "a", ")", "else", ";">>,
     <<"if", "(", "a", ")", ";", "else", "else", ";">>,
     <<"if", "(", "a", ")", ";", "else", "if", "(", "a", ")", ";", "else", ";">>,
     <<"if", "(", "a", ")", "if", "(", "1", ")", "a", ";",
       "else", "return", "a", ";">>,
     <<"while", "a", ")", ";">>, <<"while", "(", "a", ";">>,
     <<"while", "(", ")", ";">>, <<"while", "(", "a", ")", "}">>,
     <<"else", ";">>, <<"int", "b", ";">>, <<"a", ";", "a", ";">>,
     <<"a">>, <<")">>, <<"{", "{", "}">>, <<"}">>}

\* A function whose body is one statement.
StmtPrograms ==
    {<<"int", "a", ";", "int", "f", "(", "void", ")", "{">> \o x \o <<"}">> :
     x \in Stmts(MaxNest) \cup OtherStmts}

Decls ==
    {<<"int", "a", ";">>, <<"int", "b", "[", "2", "]", ";">>,
     <<"void", "b", ";">>,
     <<"int", "f", "(", "void", ")", "{", "f", "(", ")", ";", "}">>,
     <<"void", "a", "(", "int", "a", ")", "{", "a", ";", "b", ";", "}">>}

RECURSIVE DeclLists(_)
\* n top-level declarations.
DeclLists(n) ==
    IF n = 0
    THEN {<<>>}
    ELSE {l \o d : l \in DeclLists(n - 1), d \in Decls}

OtherDecls ==
    {<<"int", "a", "[", "4294967296", "]", ";">>, <<"int", "a", "[", "]", ";">>,
     <<"int", "a", "[", "b", "]", ";">>, <<"int", "a", "[", "1", ";">>,
     <<"int", "a">>, <<"int", ";">>, <<"a", ";">>, <<"int", "int", "(">>,
     <<"a", "b", "(", "void", ")", "{", "}">>,
     <<"int", "1", "(", "void", ")", "{", "}">>,
     <<"int", "f", "(", "void", ")", ";">>,
     <<"int", "f", "(", "void", ")", "{", "}", "}">>,
     <<"int", "f", "(", "void", ")", "{", "}", ";">>,
     <<"int", "a", ";", "a", "=", "1", ";">>}

\* Programs of up to MaxDecls declarations; the empty source is one of them.
DeclPrograms == UNION {DeclLists(n) : n \in 0..MaxDecls} \cup OtherDecls

\* A program using every production of the grammar.
FullProgram ==
    <<"int", "a", "[", "2", "]", ";",
      "int", "f", "(", "int", "b", ",", "int", "g", "[", "]", ")", "{",
      "int", "b", ";",
      "if", "(", "a", "[", "1", "]", "<", "b", "*", "2", ")",
      "return", "f", "(", "b", ",", "g", ")", ";",
      "else", "while", "(", "b", ")", "{", "b", "=", "b", "-", "1", ";", "}",
      "return", ";", "}">>

\* Every prefix of FullProgram: the source ends at every place.
TruncatedPrograms == {SubSeq(FullProgram, 1, n) : n \in 0..Len(FullProgram)}

Sources ==
    ExprPrograms \cup ParamPrograms \cup StmtPrograms \cup DeclPrograms
                 \cup TruncatedPrograms

----------------------------------------------------------------------------
(* The parser run on one source.                                           *)

Init ==
    /\ words \in {Lex(src) : src \in Sources}
    /\ pos = 0
    /\ stack = <<Frame("parse_program")>>
    /\ ret = Pending
    /\ scopes = <<>>
    /\ diags = <<>>
    /\ trace = <<>>
    /\ DiagnosticManagerInit
    /\ ScannerIdle

Next ==
    \/ parse_program
    \/ parse_declaration
    \/ parse_var_declaration
    \/ parse_fun_declaration
    \/ parse_param
    \/ parse_statement
    \/ parse_expr_stmt
    \/ parse_compound_stmt
    \/ parse_selection_stmt
    \/ parse_iteration_stmt
    \/ parse_return_stmt
    \/ parse_expression
    \/ parse_simple_expression
    \/ parse_additive_expression
    \/ parse_term
    \/ parse_factor
    \/ parse_number
    \/ parse_var
    \/ parse_call

Spec == Init /\ [][Next]_vars

\* parse_program has returned; ret holds its result.
Done == stack = <<>>

----------------------------------------------------------------------------
(* The grammar of the language, as a recognizer independent of the parser: *)
(* for a set S of places in the word stream, G_x(S) is the set of places   *)
(* where a phrase derived from <x> and starting at a place of S can end.   *)

Cat(i) == IF i <= Len(words) THEN words[i].category ELSE "Eof"

\* A terminal of one of the categories.
Tok(S, categories) == {i + 1 : i \in {j \in S : Cat(j) \in categories}}

RECURSIVE G_declarations(_), G_param_list(_), G_local_declarations(_),
          G_statement_list(_), G_statement(_), G_expression(_),
          G_additive_rest(_), G_term_rest(_), G_arg_list(_)

\* <type-specifier> ::= int | void
G_type(S) == Tok(S, {"Int", "Void"})

\* <var-declaration> ::= <type-specifier> ID ; | <type-specifier> ID [ NUM ] ;
G_var_declaration(S) ==
    LET id == Tok(G_type(S), {"Identifier"})
    IN  Tok(id \cup Tok(Tok(Tok(id, {"OpenBracket"}), {"Number"}),
                        {"CloseBracket"}),
            {"Semicolon"})

\* <param> ::= <type-specifier> ID | <type-specifier> ID [ ]
G_param(S) ==
    LET id == Tok(G_type(S), {"Identifier"})
    IN  id \cup Tok(Tok(id, {"OpenBracket"}), {"CloseBracket"})

\* <param-list> ::= <param-list> , <param> | <param>
G_param_list(S) ==
    IF S = {}
    THEN {}
    ELSE LET param == G_param(S)
         IN  param \cup G_param_list(Tok(param, {"Comma"}))

\* <params> ::= <param-list> | void
G_params(S) == G_param_list(S) \cup Tok(S, {"Void"})

\* <var> ::= ID | ID [ <expression> ]
G_var(S) ==
    LET id == Tok(S, {"Identifier"})
    IN  id \cup Tok(G_expression(Tok(id, {"OpenBracket"})), {"CloseBracket"})

\* <arg-list> ::= <arg-list> , <expression> | <expression>
G_arg_list(S) ==
    IF S = {}
    THEN {}
    ELSE LET expression == G_expression(S)
         IN  expression \cup G_arg_list(Tok(expression, {"Comma"}))

\* <args> ::= <arg-list> | empty
G_args(S) == G_arg_list(S) \cup S

\* <call> ::= ID ( <args> )
G_call(S) ==
    Tok(G_args(Tok(Tok(S, {"Identifier"}), {"OpenParen"})), {"CloseParen"})

\* <factor> ::= ( <expression> ) | <var> | <call> | NUM
G_factor(S) ==
    Tok(G_expression(Tok(S, {"OpenParen"})), {"CloseParen"})
        \cup G_var(S) \cup G_call(S) \cup Tok(S, {"Number"})

\* <term> ::= <term> <mulop> <factor> | <factor>
G_term_rest(S) ==
    IF S = {}
    THEN {}
    ELSE S \cup G_term_rest(G_factor(Tok(S, {"Multiply", "Divide"})))

G_term(S) == G_term_rest(G_factor(S))

\* <additive-expression> ::= <additive-expression> <addop> <term> | <term>
G_additive_rest(S) ==
    IF S = {}
    THEN {}
    ELSE S \cup G_additive_rest(G_term(Tok(S, {"Plus", "Minus"})))

G_additive_expression(S) == G_additive_rest(G_term(S))

\* <simple-expression> ::= <additive-expression> <relop> <additive-expression>
\*                       | <additive-expression>
G_simple_expression(S) ==
    LET additive == G_additive_expression(S)
    IN  additive \cup G_additive_expression(
                          Tok(additive, {"LessEqual", "Less", "Greater",
                                         "GreaterEqual", "Equal", "NotEqual"}))

\* <expression> ::= <var> = <expression> | <simple-expression>
G_expression(S) ==
    IF S = {}
    THEN {}
    ELSE G_expression(Tok(G_var(S), {"Assign"})) \cup G_simple_expression(S)

\* <expression-stmt> ::= <expression> ; | ;
G_expression_stmt(S) == Tok(G_expression(S) \cup S, {"Semicolon"})

\* <local-declarations> ::= <local-declarations> <var-declaration> | empty
G_local_declarations(S) ==
    IF S = {}
    THEN {}
    ELSE S \cup G_local_declarations(G_var_declaration(S))

\* <statement-list> ::= <statement-list> <statement> | empty
G_statement_list(S) ==
    IF S = {}
    THEN {}
    ELSE S \cup G_statement_list(G_statement(S))

\* <compound-stmt> ::= { <local-declarations> <statement-list> }
G_compound_stmt(S) ==
    Tok(G_statement_list(G_local_declarations(Tok(S, {"OpenCurly"}))),
        {"CloseCurly"})

\* <selection-stmt> ::= if ( <expression> ) <statement>
\*                    | if ( <expression> ) <statement> else <statement>
G_selection_stmt(S) ==
    LET stmt1 == G_statement(Tok(G_expression(Tok(Tok(S, {"If"}),
                                                  {"OpenParen"})),
                                 {"CloseParen"}))
    IN  stmt1 \cup G_statement(Tok(stmt1, {"Else"}))

\* <iteration-stmt> ::= while ( <expression> ) <statement>
G_iteration_stmt(S) ==
    G_statement(Tok(G_expression(Tok(Tok(S, {"While"}), {"OpenParen"})),
                    {"CloseParen"}))

\* <return-stmt> ::= return ; | return <expression> ;
G_return_stmt(S) ==
    LET return == Tok(S, {"Return"})
    IN  Tok(return \cup G_expression(return), {"Semicolon"})

\* <statement> ::= <expression-stmt> | <compound-stmt> | <selection-stmt>
\*               | <iteration-stmt> | <return-stmt>
G_statement(S) ==
    IF S = {}
    THEN {}
    ELSE G_expression_stmt(S) \cup G_compound_stmt(S)
             \cup G_selection_stmt(S) \cup G_iteration_stmt(S)
             \cup G_return_stmt(S)

\* <fun-declaration> ::= <type-specifier> ID ( <params> ) <compound-stmt>
G_fun_declaration(S) ==
    G_compound_stmt(
        Tok(G_params(Tok(Tok(G_type(S), {"Identifier"}), {"OpenParen"})),
            {"CloseParen"}))

\* <declaration> ::= <var-declaration> | <fun-declaration>
G_declaration(S) == G_var_declaration(S) \cup G_fun_declaration(S)

\* <declaration-list> ::= <declaration-list> <declaration> | <declaration>
G_declarations(S) ==
    IF S = {}
    THEN {}
    ELSE LET declaration == G_declaration(S)
         IN  declaration \cup G_declarations(declaration)

\* <program> ::= <declaration-list>
G_program == G_declarations({1})

\* The whole word stream, up to Eof, is a program of the grammar.
Derivable == Len(words) + 1 \in G_program

----------------------------------------------------------------------------
(* Claims.                                                                 *)

SyntaxDiags ==
    {"parser_expected_token", "parser_expected_type",
     "parser_expected_statement", "parser_expected_expression"}

\* The codes of the diagnostics reported so far.
Reported == {diags[i].code : i \in 1..Len(diags)}

\* parse_program returned an AST.
Accepted == Done /\ ~IsNull(ret)

\* C1: if parse_program returns a non-null AST, the whole word stream is
\* derivable from the grammar (an assignment only as <var> = <expression>):
\* ill-formed input is never accepted.
C1_AcceptedIsDerivable == Accepted => Derivable

\* The running function returns to its caller in this step.
Returns == stack' = SubSeq(stack, 1, Len(stack) - 1)

\* A syntax diagnostic is reported in this step.
SyntaxDiagReported ==
    /\ Len(diags') > Len(diags)
    /\ diags'[Len(diags')].code \in SyntaxDiags

\* C2: a production that fails returns null in the step that reports the
\* diagnostic, every enclosing production then returns null in turn, and
\* parse_program never returns a program after a parser_expected_* diagnostic.
C2_FailurePropagates ==
    /\ [](Done /\ Reported \cap SyntaxDiags # {} => IsNull(ret))
    /\ [][SyntaxDiagReported => Returns /\ IsNull(ret')]_vars
    /\ [][stack # <<>> /\ IsNull(ret) => Returns /\ IsNull(ret')]_vars

\* A missing expression inside a function body made parse_program return null.
C2_Witness ==
    /\ Done
    /\ IsNull(ret)
    /\ "parser_expected_expression" \in Reported
    /\ \E i \in 1..Len(trace) : trace[i].depth >= 3

IsAssign(n) == n.kind = "BinaryExpr" /\ n.op = "Assign"

\* The place in the trace of the act_on_assign for the `=` at loc.
AssignEvent(loc) ==
    CHOOSE i \in 1..Len(trace) :
        trace[i].ev = "act_on_assign" /\ trace[i].loc = loc

\* C3: after its simple-expression, parse_expression consumes `=` and
\* recurses exactly when the simple-expression is a VarRef and the next word
\* is `=`, and otherwise returns it with no word consumed; the recursion's
\* result becomes the right operand, so `v = w = e` builds
\* Assign(v, Assign(w, e)), the inner act_on_assign invoked before the outer.
C3_AssignRightAssociative ==
    /\ [][Running("parse_expression") /\ Top.pc = "expr1" /\ ~IsNull(ret)
          => IF ret.kind = "VarRef" /\ Cat(pos + 1) = "Assign"
             THEN /\ pos' = pos + 1
                  /\ Len(stack') = Len(stack) + 1
                  /\ stack'[Len(stack')] = Frame("parse_expression")
                  /\ stack'[Len(stack)].lvalue = ret
             ELSE pos' = pos /\ Returns /\ ret' = ret]_vars
    /\ [][Running("parse_expression") /\ Top.pc = "expr2" /\ ~IsNull(ret)
          => /\ Returns
             /\ IsAssign(ret')
             /\ ret'.lhs = Top.lvalue
             /\ ret'.rhs = ret
             /\ trace' = Append(trace, trace'[Len(trace')])
             /\ trace'[Len(trace')].ev = "act_on_assign"
             /\ trace'[Len(trace')].loc = ret'.loc]_vars
    /\ [](IsAssign(ret)
          => /\ ret.lhs.kind = "VarRef"
             /\ ret.lhs.loc < ret.loc
             /\ Cat(ret.loc) = "Assign"
             /\ IsAssign(ret.rhs) =>
                    /\ ret.rhs.loc > ret.loc
                    /\ AssignEvent(ret.rhs.loc) < AssignEvent(ret.loc)
             /\ Cat(ret.loc + 1) = "Identifier" /\ Cat(ret.loc + 2) = "Assign"
                    => /\ IsAssign(ret.rhs)
                       /\ ret.rhs.loc = ret.loc + 2
                       /\ ret.rhs.lhs.loc = ret.loc + 1)

\* `v = w = e` has been parsed: an assignment whose right operand is the
\* assignment to w.
C3_Witness ==
    /\ IsAssign(ret)
    /\ IsAssign(ret.rhs)
    /\ ret.rhs.lhs.loc = ret.loc + 1
    /\ trace[Len(trace)].ev = "act_on_assign"

----------------------------------------------------------------------------

AdditiveOperators == {"Plus", "Minus"}

MultiplicativeOperators == {"Multiply", "Divide"}

RECURSIVE LeftMost(_), Shape(_), TermTree(_, _), AdditiveTree(_, _)

\* The place of the first word of an expression made of operands and binary
\* operators.
LeftMost(n) == IF n.kind = "BinaryExpr" THEN LeftMost(n.lhs) ELSE n.loc

\* The tree of an expression: an operand is the place of its word, and a
\* binary expression the place of its operator with the trees of its operands.
Shape(n) ==
    IF n.kind = "BinaryExpr"
    THEN <<n.loc, Shape(n.lhs), Shape(n.rhs)>>
    ELSE <<n.loc>>

\* Words lo..hi are single-word operands joined by operators of the set.
IsChain(lo, hi, operators) ==
    /\ lo <= hi
    /\ (hi - lo) % 2 = 0
    /\ \A i \in lo..hi :
           IF (i - lo) % 2 = 0
           THEN Cat(i) \in {"Identifier", "Number"}
           ELSE Cat(i) \in operators

\* The tree the grammar gives the chain lo..hi of factors joined by * and /:
\* <term> ::= <term> <mulop> <factor> | <factor>
TermTree(lo, hi) ==
    IF lo = hi
    THEN <<lo>>
    ELSE <<hi - 1, TermTree(lo, hi - 2), <<hi>>>>

\* The tree the grammar gives the chain lo..hi:
\* <additive-expression> ::= <additive-expression> <addop> <term> | <term>
AdditiveTree(lo, hi) ==
    LET addops == {i \in lo..hi : Cat(i) \in AdditiveOperators}
    IN  IF addops = {}
        THEN TermTree(lo, hi)
        ELSE LET last == CHOOSE i \in addops : \A j \in addops : j <= i
             IN  <<last, AdditiveTree(lo, last - 1), TermTree(last + 1, hi)>>

IsExpr(n) == n.kind \in {"BinaryExpr", "VarRef", "Number"}

\* C4: operands joined by + - * / are grouped to the left within a level and
\* * and / bind tighter than + and -: the node returned for such a chain is
\* the tree of the left-recursive grammar, ((t1 op1 t2) op2 t3) for operators
\* of one level and a + (b * c) across the levels.
C4_LeftAssociative ==
    IsExpr(ret) /\ LeftMost(ret) <= pos
        /\ IsChain(LeftMost(ret), pos,
                   AdditiveOperators \cup MultiplicativeOperators)
    => Shape(ret) = AdditiveTree(LeftMost(ret), pos)

\* t1 - t2 + t3 * t4 / t5 has been parsed: the node returned is
\* (t1 - t2) + ((t3 * t4) / t5).
C4_Witness ==
    /\ ret.kind = "BinaryExpr"
    /\ ret.op = "Plus"
    /\ ret.lhs.kind = "BinaryExpr"
    /\ ret.lhs.op = "Minus"
    /\ ret.rhs.kind = "BinaryExpr"
    /\ ret.rhs.op = "Divide"
    /\ ret.rhs.lhs.kind = "BinaryExpr"
    /\ ret.rhs.lhs.op = "Multiply"
    /\ IsChain(LeftMost(ret), pos, AdditiveOperators \cup MultiplicativeOperators)

----------------------------------------------------------------------------

\* The place of the word after the param.
AfterParam(param) == param.loc + (IF param.is_array THEN 3 ELSE 1)

\* The function declarations whose params have been parsed: the one just
\* returned and those whose body is being parsed.
FunDeclsParsed ==
    {stack[i].fun_decl :
         i \in {j \in 1..Len(stack) : /\ stack[j].fn = "parse_fun_declaration"
                                      /\ stack[j].pc = "body"}}
    \cup (IF ret.kind = "FunDecl" THEN {ret} ELSE {})

\* The params of the function are those of its text: none for `( void )`,
\* and otherwise one param or more, the first right after the parenthesis,
\* each next one after a comma, and the parenthesis closed after the last.
ParamsAsWritten(fun_decl) ==
    LET params == fun_decl.params
    IN  IF Cat(fun_decl.loc + 2) = "Void" /\ Cat(fun_decl.loc + 3) = "CloseParen"
        THEN params = <<>>
        ELSE /\ Len(params) >= 1
             /\ params[1].loc = fun_decl.loc + 3
             /\ \A k \in 1..(Len(params) - 1) :
                    /\ Cat(AfterParam(params[k])) = "Comma"
                    /\ params[k + 1].loc = AfterParam(params[k]) + 2
             /\ Cat(AfterParam(params[Len(params)])) = "CloseParen"

\* The closing parentheses that follow the opening parenthesis of a function
\* declaration, or the comma after one of its params.
MisplacedCloseParens ==
    {trace[i].loc + 2 :
         i \in {j \in 1..Len(trace) :
                    /\ trace[j].ev = "act_on_fun_decl_start"
                    /\ Cat(trace[j].loc + 2) = "CloseParen"}}
    \cup
    {p \in 1..Len(words) :
         /\ Cat(p) = "CloseParen"
         /\ Cat(p - 1) = "Comma"
         /\ \E i \in 1..Len(trace) :
                /\ trace[i].ev = "act_on_param_decl"
                /\ p - 1 \in {trace[i].loc + 1, trace[i].loc + 3}
                /\ Cat(trace[i].loc + 1) = "OpenBracket"
                       <=> p - 1 = trace[i].loc + 3}

\* C5: after the opening parenthesis of a function declaration the params
\* are the single word `void`, no param added, exactly when that word is
\* Void and the next one is CloseParen; otherwise parse_param is called, the
\* params are a comma-separated list of one param or more, and `()` or a
\* comma before the closing parenthesis is rejected with a diagnostic and a
\* null result.
C5_ParamsVoidOrList ==
    /\ [][/\ Running("parse_fun_declaration") /\ Top.pc = "start"
          /\ Cat(pos + 1) \in {"Int", "Void"}
          /\ Cat(pos + 2) = "Identifier"
          /\ Cat(pos + 3) = "OpenParen"
          => IF Cat(pos + 4) = "Void" /\ Cat(pos + 5) = "CloseParen"
             THEN /\ pos' = pos + 5
                  /\ stack'[Len(stack')].fn = "parse_compound_stmt"
                  /\ stack'[Len(stack)].fun_decl.params = <<>>
                  /\ \A i \in (Len(trace) + 1)..Len(trace') :
                         trace'[i].ev # "act_on_param_decl"
             ELSE /\ pos' = pos + 3
                  /\ stack'[Len(stack')] = Frame("parse_param")
                  /\ stack'[Len(stack)].pc = "param"]_vars
    /\ [](\A fun_decl \in FunDeclsParsed : ParamsAsWritten(fun_decl))
    /\ [](Done =>
              \A p \in MisplacedCloseParens :
                  /\ IsNull(ret)
                  /\ diags[Len(diags)] =
                         report("parser_expected_type", p, <<>>))

\* A function declared with `( void )` has been returned, with no param.
C5_Witness ==
    /\ ret.kind = "FunDecl"
    /\ ret.params = <<>>
    /\ Cat(ret.loc + 2) = "Void"
    /\ Cat(ret.loc + 3) = "CloseParen"

\* C6: for a source with no word, Eof being the first word, parse_program
\* reports parser_expected_type, at Eof, and returns null, no declaration
\* having been made.
C6_EmptySourceRejected ==
    words = <<>> /\ Done
    => /\ IsNull(ret)
       /\ diags = <<report("parser_expected_type", 1, <<>>)>>
       /\ delivered = <<[handler |-> 0, diag |-> diags[1], nth |-> 1]>>
       /\ \A i \in 1..Len(trace) : trace[i].ev = "act_on_program_start"

\* The parse of the source with no word has ended.
C6_Witness == words = <<>> /\ Done /\ diags # <<>>

----------------------------------------------------------------------------

\* The function declarations in progress: their header parsed and the scope
\* of their parameters not yet left.
FunFrames ==
    {j \in 1..Len(stack) : /\ stack[j].fn = "parse_fun_declaration"
                           /\ stack[j].pc \in {"param", "body"}}

\* The function declarations whose body is being parsed.
BodyFrames == {j \in FunFrames : stack[j].pc = "body" /\ j < Len(stack)}

FunStarts(fun_decl) ==
    {i \in 1..Len(trace) : /\ trace[i].ev = "act_on_fun_decl_start"
                           /\ trace[i].loc = fun_decl.loc}

DiagAt(codes, loc) ==
    \E i \in 1..Len(diags) : diags[i].code \in codes /\ diags[i].loc = loc

\* act_on_fun_decl_start was invoked with only the enclosing scope entered,
\* right before the scope of the parameters was entered, and before every
\* semantic action on a word after the function's name.
DeclaredBeforeScope(fun_decl) ==
    /\ FunStarts(fun_decl) # {}
    /\ \A i \in FunStarts(fun_decl) :
           /\ trace[i].depth = 1
           /\ i < Len(trace)
           /\ trace[i + 1].ev = "enter_scope"
           /\ trace[i + 1].depth = 2
           /\ \A k \in 1..Len(trace) : trace[k].loc > fun_decl.loc => k > i
    /\ fun_decl.name \in NamesOf(scopes[1])

\* Calls of the function's own name that have just been acted on in its body.
SelfCalls ==
    {fun_decl \in {stack[j].fun_decl : j \in BodyFrames} :
         ret.kind = "FunCall" /\ ret.name = fun_decl.name}

\* The function's name was free in the enclosing scope and is not declared
\* again in a scope entered since.
NotRedeclared(fun_decl) ==
    /\ [kind |-> "FunDecl", name |-> fun_decl.name, loc |-> fun_decl.loc]
           \in scopes[1].syms
    /\ \A k \in 2..Len(scopes) : fun_decl.name \notin NamesOf(scopes[k])

\* C7 as stated: act_on_fun_decl_start comes before the scope of the
\* parameters and before every semantic action of the parameters and body,
\* and a call of the function's own name in its body refers to that FunDecl,
\* with no sema_undeclared_identifier.
C7_SelfCallResolves ==
    /\ \A j \in FunFrames : DeclaredBeforeScope(stack[j].fun_decl)
    /\ \A fun_decl \in SelfCalls :
           /\ ret.decl = [kind |-> "FunDecl", name |-> fun_decl.name,
                          loc |-> fun_decl.loc]
           /\ ~DiagAt({"sema_undeclared_identifier"}, ret.loc)

\* C7 amended: act_on_fun_decl_start comes before the scope of the
\* parameters and before every semantic action of the parameters and body,
\* so a call of the function's own name in its body never gets
\* sema_undeclared_identifier; it refers to that FunDecl when the name was
\* free in the enclosing scope and is not declared again as a parameter or
\* local, and otherwise to whatever inner-to-outer lookup finds.
C7_SelfCallDeclared ==
    /\ \A j \in FunFrames : DeclaredBeforeScope(stack[j].fun_decl)
    /\ \A fun_decl \in SelfCalls :
           /\ ~DiagAt({"sema_undeclared_identifier"}, ret.loc)
           /\ lookup(scopes, ret.name) # NoDecl
           /\ NotRedeclared(fun_decl)
                  <=> ret.decl = [kind |-> "FunDecl", name |-> fun_decl.name,
                                  loc |-> fun_decl.loc]
           /\ ~NotRedeclared(fun_decl)
                  => \/ ret.decl = lookup(scopes, ret.name)
                     \/ /\ ret.decl = NoDecl
                        /\ lookup(scopes, ret.name).kind # "FunDecl"
                        /\ DiagAt({"sema_fun_is_not_a_fun"}, ret.loc)

\* A call of the function's own name in its body has been resolved to the
\* function being declared.
C7_Witness ==
    /\ SelfCalls # {}
    /\ \A fun_decl \in SelfCalls :
           /\ ret.decl.kind = "FunDecl"
           /\ ret.decl.loc = fun_decl.loc
           /\ ret.loc > fun_decl.loc

----------------------------------------------------------------------------

\* The params of the function that were installed: not void, and the first
\* of their name.
InstalledParams(fun_decl) ==
    {k \in 1..Len(fun_decl.params) :
         /\ fun_decl.params[k].type # "Void"
         /\ \A m \in 1..(k - 1) :
                \/ fun_decl.params[m].name # fun_decl.params[k].name
                \/ fun_decl.params[m].type = "Void"}

\* C8: the FunParamsScope frame is pushed before the first parameter is
\* parsed, is on the scope stack at every semantic action of the parameters
\* and of the body, and is popped after the body, right before
\* act_on_fun_decl_end; throughout the body a lookup of a parameter's name
\* finds the parameter or a local of the function, never a global.
C8_ParamsScopeDuringBody ==
    /\ \A j \in FunFrames :
           /\ Len(scopes) >= 2
           /\ scopes[2].flags = {"FunParamsScope"}
           /\ \A i \in FunStarts(stack[j].fun_decl) :
                  /\ i < Len(trace)
                  /\ trace[i + 1].ev = "enter_scope"
                  /\ \A k \in (i + 1)..Len(trace) :
                         /\ trace[k].depth >= 2
                         /\ trace[k].ev = "act_on_param_decl"
                                => trace[k].depth = 2
                         /\ stack[j].pc = "param"
                                => trace[k].ev \in {"enter_scope",
                                                    "act_on_param_decl"}
    /\ \A j \in BodyFrames :
           /\ Len(scopes) >= 2
           /\ \A k \in InstalledParams(stack[j].fun_decl) :
                  LET param == stack[j].fun_decl.params[k]
                      d == lookup(scopes, param.name)
                  IN  /\ d.kind \in {"ParmVarDecl", "VarDecl"}
                      /\ d.loc >= param.loc
                      /\ d \notin scopes[1].syms
                      /\ (\A f \in 3..Len(scopes) :
                              param.name \notin NamesOf(scopes[f]))
                             => d = [kind |-> "ParmVarDecl",
                                     name |-> param.name, loc |-> param.loc]
    /\ ret.kind = "FunDecl"
           => /\ Len(trace) >= 4
              /\ trace[Len(trace)].ev = "act_on_fun_decl_end"
              /\ trace[Len(trace) - 1].ev = "leave_scope"
              /\ trace[Len(trace) - 1].depth = 1
              /\ trace[Len(trace) - 2].ev = "leave_scope"
              /\ trace[Len(trace) - 3].ev = "act_on_compound_stmt"
              /\ trace[Len(trace) - 3].depth >= 3

\* In the body of a function a variable has been resolved to a parameter
\* that has the name of a global.
C8_Witness ==
    /\ BodyFrames # {}
    /\ Len(scopes) >= 3
    /\ ret.kind = "VarRef"
    /\ ret.decl.kind = "ParmVarDecl"
    /\ ret.decl \in scopes[2].syms
    /\ ret.name \in NamesOf(scopes[1])

----------------------------------------------------------------------------

\* A declaration at the top level of the body of a function has just been
\* acted on.
BodyLocalDeclared ==
    /\ ret.kind = "VarDecl"
    /\ Running("parse_compound_stmt")
    /\ Top.pc = "decl"
    /\ stack[Len(stack) - 1].fn = "parse_fun_declaration"

LocalRef == [kind |-> "VarDecl", name |-> ret.name, loc |-> ret.loc]

NamesUnique(frame) ==
    \A d1, d2 \in frame.syms : d1.name = d2.name => d1 = d2

\* C9 as stated: the parameters and the declarations at the top level of the
\* body are in one frame, where names are unique, so a body-level local with
\* the name of a parameter is reported as a redefinition.
C9_ParamsAndLocalsShareFrame ==
    /\ \A k \in 1..Len(scopes) : NamesUnique(scopes[k])
    /\ BodyLocalDeclared /\ ret.type = "Int"
           => \E k \in 1..Len(scopes) :
                  /\ "FunParamsScope" \in scopes[k].flags
                  /\ IF \E d \in scopes[k].syms :
                            d.kind = "ParmVarDecl" /\ d.name = ret.name
                     THEN DiagAt({"sema_redefinition"}, ret.loc)
                     ELSE DiagAt({"sema_redefinition"}, ret.loc)
                              \/ LocalRef \in scopes[k].syms

\* C9 amended: the parameters are in the FunParamsScope frame and the
\* declarations at the top level of the body in a frame of their own, pushed
\* by parse_compound_stmt right inside it; names are unique within each
\* frame, so a body-level local is a redefinition only of an earlier
\* body-level local, and one with the name of a parameter is installed and
\* shadows the parameter.
C9_BodyFrameInsideParamsFrame ==
    /\ \A k \in 1..Len(scopes) : NamesUnique(scopes[k])
    /\ BodyLocalDeclared
           => /\ Len(scopes) = 3
              /\ scopes[2].flags = {"FunParamsScope"}
              /\ scopes[3].flags = {"CompoundStmt", "FunScope"}
              /\ \A d \in scopes[2].syms : d.kind = "ParmVarDecl"
              /\ \A d \in scopes[3].syms : d.kind = "VarDecl"
              /\ ret.type = "Int"
                     => /\ DiagAt({"sema_redefinition"}, ret.loc)
                               <=> \E i \in 1..Len(Top.decls) :
                                       /\ Top.decls[i].name = ret.name
                                       /\ Top.decls[i].type = "Int"
                        /\ DiagAt({"sema_redefinition"}, ret.loc)
                               <=> LocalRef \notin scopes[3].syms
                        /\ lookup(scopes, ret.name).kind = "VarDecl"
                        /\ lookup(scopes, ret.name) \in scopes[3].syms

\* A local with the name of a parameter has been declared at the top level
\* of the body, with no redefinition reported, both being installed.
C9_Witness ==
    /\ BodyLocalDeclared
    /\ LocalRef \in scopes[3].syms
    /\ ret.name \in NamesOf(scopes[2])
    /\ ~DiagAt({"sema_redefinition"}, ret.loc)

----------------------------------------------------------------------------

RECURSIVE Refs(_)

\* The VarRef and FunCall nodes of an AST.
Refs(n) ==
    LET all(nodes) == UNION {Refs(nodes[i]) : i \in 1..Len(nodes)}
    IN  CASE n.kind = "Program" -> all(n.decls)
          [] n.kind = "FunDecl" -> Refs(n.body)
          [] n.kind = "CompoundStmt" -> all(n.stms)
          [] n.kind = "SelectionStmt" ->
                 Refs(n.cond) \cup Refs(n.then) \cup Refs(n.else)
          [] n.kind = "IterationStmt" -> Refs(n.cond) \cup Refs(n.body)
          [] n.kind = "ReturnStmt" -> Refs(n.expr)
          [] n.kind = "BinaryExpr" -> Refs(n.lhs) \cup Refs(n.rhs)
          [] n.kind = "VarRef" -> {n} \cup Refs(n.index)
          [] n.kind = "FunCall" -> {n} \cup all(n.args)
          [] OTHER -> {}

IsRef(n) == n.kind \in {"VarRef", "FunCall"}

WantedKinds(n) ==
    IF n.kind = "FunCall" THEN {"FunDecl"} ELSE {"VarDecl", "ParmVarDecl"}

\* The node is a FunCall exactly where an opening parenthesis follows the
\* identifier.
KindAsWritten(n) == n.kind = "FunCall" <=> Cat(n.loc + 1) = "OpenParen"

\* The reference points to a declaration of its name and kind, made at an
\* earlier word.
RefersToEarlierDecl(n) ==
    /\ n.decl.kind \in WantedKinds(n)
    /\ n.decl.name = n.name
    /\ n.decl.loc < n.loc
    /\ \E i, k \in 1..Len(trace) :
           /\ i < k
           /\ trace[i].loc = n.decl.loc
           /\ trace[i].ev \in {"act_on_var_decl", "act_on_param_decl",
                               "act_on_fun_decl_start"}
           /\ trace[k].loc = n.loc
           /\ trace[k].ev \in {"act_on_var", "act_on_call"}

\* The declaration is in the innermost frame of the stack that has the name.
FoundInnerToOuter(n) ==
    \E k \in 1..Len(scopes) :
        /\ n.decl \in scopes[k].syms
        /\ \A j \in (k + 1)..Len(scopes) : n.name \notin NamesOf(scopes[j])

\* The reference has no declaration and a semantic error was reported at it.
Diagnosed(n) ==
    /\ n.decl = NoDecl
    /\ DiagAt({"sema_undeclared_identifier", "sema_var_is_not_a_var",
               "sema_fun_is_not_a_fun"}, n.loc)

\* C10 as stated: in a returned AST every VarRef and FunCall refers to a
\* declaration installed earlier and found by inner-to-outer lookup in the
\* scope stack of the time, none having a missing declaration.
C10_ReferencesResolved ==
    /\ IsRef(ret) /\ ret.decl # NoDecl
           => RefersToEarlierDecl(ret) /\ FoundInnerToOuter(ret)
    /\ Accepted
           => \A n \in Refs(ret) :
                  n.decl # NoDecl /\ RefersToEarlierDecl(n)

\* C10 amended: every VarRef and FunCall, a FunCall being the node of an
\* identifier followed by a parenthesis, either refers to a declaration of
\* its kind installed earlier and found by inner-to-outer lookup in the
\* scope stack of the time, or has no declaration, its name being undeclared
\* or declared as the other kind, and a semantic error was reported at it; a
\* returned AST holds such references, resolved or diagnosed.
C10_ReferencesResolvedOrDiagnosed ==
    /\ IsRef(ret)
           => /\ KindAsWritten(ret)
              /\ IF ret.decl # NoDecl
                 THEN /\ RefersToEarlierDecl(ret)
                      /\ FoundInnerToOuter(ret)
                      /\ ~Diagnosed([ret EXCEPT !.decl = NoDecl])
                 ELSE /\ Diagnosed(ret)
                      /\ lookup(scopes, ret.name).kind \notin WantedKinds(ret)
    /\ Accepted
           => \A n \in Refs(ret) :
                  /\ KindAsWritten(n)
                  /\ IF n.decl # NoDecl
                     THEN RefersToEarlierDecl(n)
                     ELSE Diagnosed(n)

\* An AST has been returned that holds a reference to a parameter, a call of
\* a function and a reference with no declaration.
C10_Witness ==
    /\ Accepted
    /\ \E n \in Refs(ret) : n.decl.kind = "ParmVarDecl"
    /\ \E n \in Refs(ret) : n.decl.kind = "FunDecl"
    /\ \E n \in Refs(ret) : n.decl = NoDecl

----------------------------------------------------------------------------
(* The diagnostic manager: the chain of handlers that handler() builds and *)
(* the delivery of an emitted diagnostic along it.  A handler is given by   *)
(* the diagnostic codes it returns true for; handler 0 is the one in use    *)
(* before the first replacement.                                            *)

\* Replacements of the handler in a run.
MaxHandlers == 3

\* Diagnostics emitted in a run.
MaxDiags == 3

DiagCodes ==
    {"lexer_bad_char", "parser_expected_token", "parser_expected_type"}

Handlers ==
    {[passes |-> {}], [passes |-> {"lexer_bad_char"}], [passes |-> DiagCodes]}

\* The parser is not running.
ParserIdle ==
    /\ words = <<>>
    /\ pos = 0
    /\ stack = <<>>
    /\ ret = Pending
    /\ scopes = <<>>
    /\ trace = <<>>

\* DiagnosticManager::handler: replaces the handler in use by h chained to it.
handler ==
    /\ Len(handlers) < MaxHandlers
    /\ \E h \in Handlers : handlers' = Append(handlers, h)
    /\ UNCHANGED <<parser, diags, delivered, scanner>>

\* The report statements of a run: a report without arguments, one with an
\* argument pack of two, and one with .arg and .range chained on the builder
\* that report returns.
Builders ==
    {report("parser_expected_type", 1, <<>>),
     report("parser_expected_token", 1, <<"Comma", "int">>),
     range(arg(report("lexer_bad_char", 1, <<>>), "If"),
           [begin |-> 1, len |-> 1])}

\* A statement `diagman.report(...)`, with or without .arg and .range
\* chained: the diagnostic built is emitted when the statement ends.
report_stmt ==
    /\ Len(diags) < MaxDiags
    /\ \E builder \in Builders :
           LET e == emit(Env, builder)
           IN  /\ diags' = e.diags
               /\ delivered' = e.delivered
    /\ UNCHANGED <<parser, handlers, scanner>>

InitDiagnostics ==
    /\ ParserIdle
    /\ ScannerIdle
    /\ DiagnosticManagerInit
    /\ diags = <<>>

NextDiagnostics ==
    \/ handler
    \/ report_stmt

SpecDiagnostics == InitDiagnostics /\ [][NextDiagnostics]_vars

\* The calls of handlers made for the diagnostic reported last in the step.
NewCalls == SubSeq(delivered', Len(delivered) + 1, Len(delivered'))

\* C11: whatever handlers were installed, an emitted diagnostic goes first
\* to the handler installed last, and from a handler to the one in use
\* before it exactly when the newer one returned true, down the chain; the
\* handlers are called for the diagnostics in the order of the reports, and
\* installing a handler calls none.
C11_HandlerChain ==
    /\ [][diags' # diags
          => LET diag == diags'[Len(diags')]
                 Reached(k) ==
                     \E i \in 1..Len(NewCalls) : NewCalls[i].handler = k
             IN  /\ diags' = Append(diags, diag)
                 /\ delivered' = delivered \o NewCalls
                 /\ Len(NewCalls) >= 1
                 /\ \A i \in 1..Len(NewCalls) :
                        /\ NewCalls[i].diag = diag
                        /\ NewCalls[i].nth = Len(diags')
                        /\ NewCalls[i].handler = Len(handlers) - i + 1
                 /\ \A k \in 0..(Len(handlers) - 1) :
                        Reached(k) <=> /\ Reached(k + 1)
                                       /\ diag.code \in handlers[k + 1].passes
         ]_vars
    /\ [][handlers' # handlers
          => /\ Len(handlers') = Len(handlers) + 1
             /\ SubSeq(handlers', 1, Len(handlers)) = handlers
             /\ delivered' = delivered]_vars
    /\ [](\A i, j \in 1..Len(delivered) :
              i < j => /\ delivered[i].nth <= delivered[j].nth
                       /\ delivered[i].handler = delivered[j].handler
                              => delivered[i].nth < delivered[j].nth)

\* A diagnostic has gone through two installed handlers down to the first
\* one, and another has been stopped by an installed handler.
C11_Witness ==
    /\ \E i, j \in 1..Len(delivered) :
           /\ delivered[i].handler = 2
           /\ delivered[j].handler = 0
           /\ delivered[i].nth = delivered[j].nth
    /\ \E n \in 1..Len(diags) :
           \A i \in 1..Len(delivered) :
               delivered[i].nth = n => delivered[i].handler >= 1

----------------------------------------------------------------------------
(* The scanner: next_word over a source given as its characters, a word    *)
(* being a category with the range of its lexeme in the source.            *)

\* Pieces in a source of the piece family.
MaxPieces == 3

Letters == {"a", "f", "i"}

Digits == {"1"}

Spaces == {" "}

is_letter(c) == c \in Letters

is_digit(c) == c \in Digits

is_space(c) == c \in Spaces

\* The character at a place of the source; the terminator past its end.
CharAt(p) == IF p <= Len(source) THEN source[p] ELSE "NUL"

RECURSIVE RunEnd(_, _)
\* The first place from p on whose character is not of the class.
RunEnd(p, class) == IF CharAt(p) \in class THEN RunEnd(p + 1, class) ELSE p

\* Scanner::lex_identifier: [A-Za-z][A-Za-z]*, the place after the run.
lex_identifier(p) == RunEnd(p, Letters)

\* Scanner::lex_number: [0-9]+; a letter right after it makes the whole run
\* of letters and digits a bad number.
lex_number(p) ==
    LET end == RunEnd(p, Digits)
    IN  IF is_letter(CharAt(end))
        THEN [ok |-> FALSE, end |-> RunEnd(end, Letters \cup Digits)]
        ELSE [ok |-> TRUE, end |-> end]

\* Post-match lookup of the keywords.
KeywordOrIdentifier(lexeme) ==
    CASE lexeme = <<"e", "l", "s", "e">> -> "Else"
      [] lexeme = <<"i", "f">> -> "If"
      [] lexeme = <<"i", "n", "t">> -> "Int"
      [] lexeme = <<"r", "e", "t", "u", "r", "n">> -> "Return"
      [] lexeme = <<"v", "o", "i", "d">> -> "Void"
      [] lexeme = <<"w", "h", "i", "l", "e">> -> "While"
      [] OTHER -> "Identifier"

RECURSIVE comment_end(_)
\* The place after the first */ from p on, or 0 when the comment is unclosed.
comment_end(p) ==
    IF p + 1 > Len(source)
    THEN 0
    ELSE IF CharAt(p) = "*" /\ CharAt(p + 1) = "/"
    THEN p + 2
    ELSE comment_end(p + 1)

\* A word of the scanner: its category and the range of its lexeme.
ScannedWord(category, begin, end) ==
    [category |-> category, begin |-> begin, len |-> end - begin]

\* A run of characters passed over.
Skipped(kind, begin, end) == [kind |-> kind, begin |-> begin, len |-> end - begin]

\* Result of lexing at a place: the word and the place after it.
Lexed(word, next) == [word |-> word, next |-> next]

\* Mutant of lex_operator: the word of a two-character operator has the
\* range of its first character.
lex_operator_mutant(p) ==
    LET c == CharAt(p)
        two == CharAt(p + 1) = "="
    IN  CASE c = "<" /\ two -> Lexed(ScannedWord("LessEqual", p, p + 1), p + 2)
          [] c = ">" /\ two -> Lexed(ScannedWord("GreaterEqual", p, p + 1), p + 2)
          [] c = "=" /\ two -> Lexed(ScannedWord("Equal", p, p + 1), p + 2)
          [] c = "!" /\ two -> Lexed(ScannedWord("NotEqual", p, p + 1), p + 2)
          [] OTHER -> Lexed(ScannedWord(CategoryOf(c), p, p + 1), p + 1)

\* Operators and punctuation: <= >= == != of two characters, the others of
\* one.
lex_operator(p) ==
    LET c == CharAt(p)
        two == CharAt(p + 1) = "="
    IN  CASE c = "<" /\ two -> Lexed(ScannedWord("LessEqual", p, p + 2), p + 2)
          [] c = ">" /\ two -> Lexed(ScannedWord("GreaterEqual", p, p + 2), p + 2)
          [] c = "=" /\ two -> Lexed(ScannedWord("Equal", p, p + 2), p + 2)
          [] c = "!" /\ two -> Lexed(ScannedWord("NotEqual", p, p + 2), p + 2)
          [] OTHER -> Lexed(ScannedWord(CategoryOf(c), p, p + 1), p + 1)

OperatorChars ==
    {"+", "-", "*", "/", ";", ",", "(", ")", "[", "]", "{", "}", "=", "<", ">"}

\* State of a call of next_word: the place reached, what was passed over and
\* reported, and the word found if any.
Scan(p, skp, dgs, found, word) ==
    [pos |-> p, skipped |-> skp, diags |-> dgs.diags,
     delivered |-> dgs.delivered, found |-> found, word |-> word]

RECURSIVE scan(_, _, _, _)
\* Scanner::next_word from place p on: whitespace, comments and bad input are
\* passed over until a word or the end of the source.  The spec does not say
\* whether the run of a bad number is returned as a Number or passed over:
\* keep_bad chooses.
scan(p, skp, dgs, keep_bad) ==
    LET c == CharAt(p)
    IN  CASE p > Len(source) -> Scan(p, skp, dgs, FALSE, NoWord)
          [] is_space(c) ->
                 LET end == RunEnd(p, Spaces)
                 IN  scan(end, Append(skp, Skipped("space", p, end)), dgs,
                          keep_bad)
          [] c = "/" /\ CharAt(p + 1) = "*" ->
                 LET end == comment_end(p + 2)
                 IN  IF end = 0
                     THEN scan(Len(source) + 1,
                               Append(skp, Skipped("unclosed_comment", p,
                                                   Len(source) + 1)),
                               emit(dgs, report("lexer_unclosed_comment", p, <<>>)),
                               keep_bad)
                     ELSE scan(end, Append(skp, Skipped("comment", p, end)),
                               dgs, keep_bad)
          [] is_letter(c) ->
                 LET end == lex_identifier(p)
                 IN  Scan(end, skp, dgs, TRUE,
                          ScannedWord(KeywordOrIdentifier(SubSeq(source, p,
                                                                 end - 1)),
                                      p, end))
          [] is_digit(c) ->
                 LET number == lex_number(p)
                     bad == emit(dgs, report("lexer_bad_number", p, <<>>))
                 IN  IF number.ok
                     THEN Scan(number.end, skp, dgs, TRUE,
                               ScannedWord("Number", p, number.end))
                     ELSE IF keep_bad
                     THEN Scan(number.end, skp, bad, TRUE,
                               ScannedWord("Number", p, number.end))
                     ELSE scan(number.end,
                               Append(skp, Skipped("bad_number", p,
                                                   number.end)),
                               bad, keep_bad)
          [] c \in OperatorChars \/ (c = "!" /\ CharAt(p + 1) = "=") ->
                 LET op == lex_operator(p)
                 IN  Scan(op.next, skp, dgs, TRUE, op.word)
          [] OTHER ->
                 scan(p + 1, Append(skp, Skipped("bad_char", p, p + 1)),
                      emit(dgs, report("lexer_bad_char", p, <<>>)), keep_bad)

\* Scanner::next_word.
next_word ==
    /\ \E keep_bad \in BOOLEAN :
           LET r == scan(current_pos, skipped,
                         [diags |-> diags, delivered |-> delivered], keep_bad)
           IN  /\ current_pos' = r.pos
               /\ skipped' = r.skipped
               /\ diags' = r.diags
               /\ delivered' = r.delivered
               /\ scanned' = IF r.found
                             THEN Append(scanned, r.word)
                             ELSE scanned
    /\ UNCHANGED <<parser, handlers, source>>

\* The pieces the sources of the family are made of.
Pieces ==
    {<<"a">>, <<"i", "f">>, <<"1">>, <<" ">>, <<"/", "*">>, <<"*", "/">>,
     <<"$">>, <<"<">>, <<"=">>}

RECURSIVE PieceSources(_)
\* The sources made of n pieces.
PieceSources(n) ==
    IF n = 0
    THEN {<<>>}
    ELSE {src \o piece : src \in PieceSources(n - 1), piece \in Pieces}

OtherSources ==
    {<<"a", " ", "/", "*", "$", "*", "/", "$", "1", "a", "<", "=", "i", "f">>,
     <<"i", "f", "(", "a", "!", "=", "1", ")", "a", "=", "1", ";", "!">>,
     <<"1", "1", " ", " ", "/", "*", "*", "*", "/", "/", "a", ">", "=", "=">>}

SourceTexts == UNION {PieceSources(n) : n \in 0..MaxPieces} \cup OtherSources

InitScanner ==
    /\ ParserIdle
    /\ DiagnosticManagerInit
    /\ diags = <<>>
    /\ source \in SourceTexts
    /\ current_pos = 1
    /\ scanned = <<>>
    /\ skipped = <<>>

NextScanner == next_word

SpecScanner == InitScanner /\ [][NextScanner]_vars

\* The places of a range.
RangeOf(r) == r.begin..(r.begin + r.len - 1)

\* The ranges cover the places scanned so far, each place once, in order.
Reconstructs(ranges) ==
    /\ \A q \in 1..(current_pos - 1) :
           Cardinality({i \in 1..Len(ranges) : q \in RangeOf(ranges[i])}) = 1
    /\ \A i \in 1..Len(ranges) :
           ranges[i].len >= 1 /\ RangeOf(ranges[i]) \subseteq 1..Len(source)

\* The words' ranges are strictly increasing and do not overlap.
WordsMonotonic ==
    \A i, j \in 1..Len(scanned) :
        i < j => /\ scanned[i].len >= 1
                 /\ scanned[i].begin + scanned[i].len <= scanned[j].begin

\* The runs passed over that are of the kinds.
SkippedOf(kinds) == SelectSeq(skipped, LAMBDA r : r.kind \in kinds)

\* C12 as stated: the ranges of the words are strictly increasing and do not
\* overlap, and the words with the whitespace and comments passed over
\* reconstruct the source exactly.
C12_WordsReconstructSource ==
    /\ WordsMonotonic
    /\ Reconstructs(scanned \o SkippedOf({"space", "comment",
                                          "unclosed_comment"}))

\* C12 amended: the ranges of the words are strictly increasing and do not
\* overlap, and the words with the whitespace, the comments and the bad
\* input passed over, each run of bad input and each unclosed comment
\* reported at its first character, reconstruct the source exactly.
C12_WordsAndSkippedReconstructSource ==
    /\ WordsMonotonic
    /\ Reconstructs(scanned \o skipped)
    /\ \A i \in 1..Len(skipped) :
           skipped[i].kind \in {"bad_char", "bad_number", "unclosed_comment"}
               <=> \E k \in 1..Len(diags) :
                       /\ diags[k].loc = skipped[i].begin
                       /\ diags[k].code \in {"lexer_bad_char",
                                             "lexer_bad_number",
                                             "lexer_unclosed_comment"}
    /\ current_pos <= Len(source) + 1

\* A source has been scanned to its end, with two words or more, a comment
\* and a bad character passed over.
C12_Witness ==
    /\ current_pos = Len(source) + 1
    /\ Len(scanned) >= 2
    /\ SkippedOf({"comment"}) # <<>>
    /\ SkippedOf({"bad_char"}) # <<>>

----------------------------------------------------------------------------

\* The syntax diagnostics reported so far.
SyntaxDiagsReported ==
    {i \in 1..Len(diags) : diags[i].code \in SyntaxDiags}

\* C14: in a run of parse_program at most one syntax diagnostic is reported;
\* once it is, no word is consumed, no diagnostic is reported and no act_on_
\* action is invoked any more (the scopes entered are still left), every
\* step returns null to its caller, and parse_program returns null.
C14_OneSyntaxDiagThenNull ==
    /\ [](Cardinality(SyntaxDiagsReported) <= 1)
    /\ [](SyntaxDiagsReported # {} => SyntaxDiagsReported = {Len(diags)})
    /\ [][SyntaxDiagsReported # {}
          => /\ pos' = pos
             /\ diags' = diags
             /\ Len(trace') >= Len(trace)
             /\ SubSeq(trace', 1, Len(trace)) = trace
             /\ \A i \in (Len(trace) + 1)..Len(trace') :
                    trace'[i].ev = "leave_scope"
             /\ Returns
             /\ IsNull(ret')]_vars
    /\ [](Done /\ SyntaxDiagsReported # {} => IsNull(ret))

\* parse_program has returned null after a syntax diagnostic reported inside
\* a statement, with words left unconsumed and scopes left on the way out.
C14_Witness ==
    /\ Done
    /\ IsNull(ret)
    /\ Cardinality(SyntaxDiagsReported) = 1
    /\ pos + 1 < Len(words)
    /\ Len(trace) >= 2
    /\ trace[Len(trace)].ev = "leave_scope"
    /\ trace[Len(trace) - 1].ev = "leave_scope"
    /\ \E i \in 1..Len(trace) : trace[i].ev = "act_on_var"

----------------------------------------------------------------------------

\* The calls of parse_compound_stmt whose ParseScope is alive.
CompoundFrames ==
    {j \in 1..Len(stack) : /\ stack[j].fn = "parse_compound_stmt"
                           /\ stack[j].pc \in {"decl", "stmt"}}

\* The calls that hold a ParseScope, outermost first.
ScopeOwners == FunFrames \cup CompoundFrames

\* The flags the ParseScope of the call at j was constructed with.
OwnedFlags(j) ==
    IF stack[j].fn = "parse_fun_declaration"
    THEN {"FunParamsScope"}
    ELSE IF stack[j - 1].fn = "parse_fun_declaration"
    THEN {"CompoundStmt", "FunScope"}
    ELSE {"CompoundStmt"}

\* The depth of the scope stack when the call at j was entered: the frame of
\* the program and one frame for each ParseScope alive in its callers.
EntryDepth(j) == 1 + Cardinality({k \in ScopeOwners : k < j})

ScopedCalls ==
    {j \in 1..Len(stack) :
        stack[j].fn \in {"parse_fun_declaration", "parse_compound_stmt"}}

\* C15: scope pushes and pops are balanced on every path.  A call of
\* parse_fun_declaration or parse_compound_stmt starts at some depth of the
\* scope stack, holds at most one frame above it while it runs, and returns,
\* with a node or with null, at the depth it started at; the frames on the
\* scope stack are those of the ParseScopes alive, in the order they were
\* pushed, and a return pops the innermost one: the frame of the body of a
\* function before the FunParamsScope frame.
C15_ScopesBalanced ==
    /\ [](\A j \in ScopedCalls :
              /\ j = Len(stack) /\ stack[j].pc = "start"
                     => Len(scopes) = EntryDepth(j)
              /\ j = Len(stack) /\ j \in ScopeOwners
                     => Len(scopes) = EntryDepth(j) + 1
              /\ Len(scopes) >= EntryDepth(j))
    /\ [](stack # <<>> /\ stack[1].pc # "start"
              => /\ Len(scopes) = 1 + Cardinality(ScopeOwners)
                 /\ \A j \in ScopeOwners :
                        scopes[EntryDepth(j) + 1].flags = OwnedFlags(j))
    /\ [][/\ stack # <<>>
          /\ Top.fn \in {"parse_fun_declaration", "parse_compound_stmt"}
          /\ Returns
          => /\ Len(scopes') = EntryDepth(Len(stack))
             /\ \A k \in 1..Len(scopes') : scopes'[k].flags = scopes[k].flags
             /\ Len(stack) \in ScopeOwners
                    => /\ scopes[Len(scopes)].flags = OwnedFlags(Len(stack))
                       /\ trace'[Len(trace')].ev
                              \in {"leave_scope", "act_on_fun_decl_end"}
             /\ Len(stack) \in CompoundFrames
                /\ stack[Len(stack) - 1].fn = "parse_fun_declaration"
                    => /\ scopes[Len(scopes)].flags
                              = {"CompoundStmt", "FunScope"}
                       /\ scopes'[Len(scopes')].flags = {"FunParamsScope"}]_vars
    /\ [](Done => Len(scopes) = IF IsNull(ret) THEN 1 ELSE 0)

\* The body of a function, with a compound statement nested in it, has
\* returned a node to parse_fun_declaration: the frames of both compound
\* statements have been popped and the FunParamsScope frame is innermost.
C15_Witness ==
    /\ Running("parse_fun_declaration")
    /\ Top.pc = "body"
    /\ ret.kind = "CompoundStmt"
    /\ Len(scopes) = 2
    /\ scopes[2].flags = {"FunParamsScope"}
    /\ Cardinality({i \in 1..Len(trace) : trace[i].ev = "enter_scope"}) >= 3
    /\ Cardinality({i \in 1..Len(trace) : trace[i].ev = "leave_scope"}) >= 2

----------------------------------------------------------------------------

\* if ( c1 ) if ( c2 ) s1 else s2, as the body of a function.
DanglingElse ==
    <<"int", "a", ";", "int", "f", "(", "void", ")", "{",
      "if", "(", "a", ")", "if", "(", "1", ")", "a", ";",
      "else", "return", "a", ";", "}">>

\* parse_selection_stmt has its first statement and is about to look for an
\* `else`.
AtElse ==
    /\ Running("parse_selection_stmt")
    /\ Top.pc = "stmt1"
    /\ ~IsNull(ret)

\* C16: an `else` binds to the nearest `if` that has none.  The
\* parse_selection_stmt that has just got its first statement, the innermost
\* one, consumes an `else` that follows at once and parses its second
\* statement; without one it returns a SelectionStmt with a null else.  An
\* `if` whose statement is an `if` without an else has no else itself, and
\* for `if ( c1 ) if ( c2 ) s1 else s2` the inner SelectionStmt has s2 as
\* its else and the outer one is built with a null else.
C16_DanglingElseBindsInner ==
    /\ [][AtElse /\ peek_word(Env).category = "Else"
          => /\ pos' = pos + 1
             /\ trace' = trace
             /\ stack' = Append([stack EXCEPT ![Len(stack)] =
                                     [fn |-> "parse_selection_stmt",
                                      pc |-> "stmt2", expr |-> Top.expr,
                                      stmt1 |-> ret]],
                                Frame("parse_statement"))]_vars
    /\ [][AtElse /\ peek_word(Env).category # "Else"
          => /\ pos' = pos
             /\ Returns
             /\ ret' = [kind |-> "SelectionStmt", cond |-> Top.expr,
                        then |-> ret, else |-> Null]]_vars
    /\ [](ret.kind = "SelectionStmt" /\ ret.then.kind = "SelectionStmt"
              /\ IsNull(ret.then.else)
              => IsNull(ret.else))
    /\ [](Done /\ words = Lex(DanglingElse)
              => LET outer == ret.decls[2].body.stms[1]
                     inner == outer.then
                 IN  /\ outer.kind = "SelectionStmt"
                     /\ outer.cond.kind = "VarRef"
                     /\ IsNull(outer.else)
                     /\ inner.kind = "SelectionStmt"
                     /\ inner.cond.kind = "Number"
                     /\ inner.then.kind = "VarRef"
                     /\ inner.else.kind = "ReturnStmt")

\* The outer `if` of `if ( c1 ) if ( c2 ) s1 else s2` has been returned: its
\* else is null and the else of the inner one is s2.
C16_Witness ==
    /\ ret.kind = "SelectionStmt"
    /\ IsNull(ret.else)
    /\ ret.then.kind = "SelectionStmt"
    /\ ret.then.cond # ret.cond
    /\ ret.then.else.kind = "ReturnStmt"
    /\ words = Lex(DanglingElse)

====
